---------------------------- MODULE Spec2Model ----------------------------
(***************************************************************************)
(* A model of two classes of the STOMP library:                            *)
(*                                                                         *)
(*   - s2omp::angular_bin   (src/s2omp/angular_bin-inl.h): the accumulators *)
(*     of one angular annulus, their jack-knife (per-region) copies and the *)
(*     estimators derived from them;                                       *)
(*   - Stomp::RegionMap     (src/stomp/stomp_base_map.cc): the partition of *)
(*     a map's coverage pixels into regions.                               *)
(*                                                                         *)
(* The two classes share no state.  Spec is the angular_bin state machine, *)
(* RegionSpec the RegionMap state machine and ResolutionSpec applies       *)
(* RegionMap::_FindRegionResolution to inputs drawn from bounded sets.     *)
(* Each specification leaves the other classes' variables untouched.       *)
(***************************************************************************)
EXTENDS Integers, Sequences, FiniteSets

(***************************************************************************)
(* IEEE doubles.  A double is modelled as a fraction [n, d]:               *)
(*   d > 0           the finite value n/d in lowest terms,                 *)
(*   d = 0, n = 1    +infinity;   d = 0, n = -1   -infinity,               *)
(*   d = 0, n = 0    not-a-number.                                         *)
(* Finite arithmetic is exact (rounding is not modelled) and the sign of   *)
(* zero is not modelled: x / 0 takes the sign of x.                        *)
(***************************************************************************)
RECURSIVE Gcd(_, _)
Gcd(a, b) == IF b = 0 THEN a ELSE Gcd(b, a % b)

Abs(x) == IF x < 0 THEN -x ELSE x

Sign(x) == IF x < 0 THEN -1 ELSE IF x > 0 THEN 1 ELSE 0

Frac(n, d) ==
    IF d = 0 THEN [n |-> Sign(n), d |-> 0]
    ELSE LET g == Gcd(Abs(n), Abs(d))
             s == Sign(d)
         IN  [n |-> (s * n) \div g, d |-> (s * d) \div g]

D(i) == [n |-> i, d |-> 1]

NaN == [n |-> 0, d |-> 0]

PosInf == [n |-> 1, d |-> 0]

NegInf == [n |-> -1, d |-> 0]

IsNaN(x) == x.d = 0 /\ x.n = 0

IsInf(x) == x.d = 0 /\ x.n # 0

IsFinite(x) == x.d > 0

DNeg(x) == [n |-> -x.n, d |-> x.d]

DAdd(x, y) ==
    IF IsNaN(x) \/ IsNaN(y) THEN NaN
    ELSE IF IsInf(x) /\ IsInf(y) THEN (IF x.n = y.n THEN x ELSE NaN)
    ELSE IF IsInf(x) THEN x
    ELSE IF IsInf(y) THEN y
    ELSE Frac(x.n * y.d + y.n * x.d, x.d * y.d)

DSub(x, y) == DAdd(x, DNeg(y))

DMul(x, y) ==
    IF IsNaN(x) \/ IsNaN(y) THEN NaN
    ELSE IF IsInf(x) \/ IsInf(y)
         THEN (IF x.n = 0 \/ y.n = 0 THEN NaN
               ELSE [n |-> Sign(x.n) * Sign(y.n), d |-> 0])
    ELSE Frac(x.n * y.n, x.d * y.d)

DDiv(x, y) ==
    IF IsNaN(x) \/ IsNaN(y) THEN NaN
    ELSE IF IsInf(x) THEN (IF IsInf(y) THEN NaN
                           ELSE [n |-> x.n * (IF y.n < 0 THEN -1 ELSE 1), d |-> 0])
    ELSE IF IsInf(y) THEN D(0)
    ELSE IF y.n = 0 THEN [n |-> Sign(x.n), d |-> 0]
    ELSE Frac(x.n * y.d, x.d * y.n)

(***************************************************************************)
(* Bounds of the model and the sets the operations' arguments are drawn    *)
(* from.                                                                   *)
(***************************************************************************)
MaxOps == 2

Counter == {"GAL_GAL", "GAL_RAND", "RAND_GAL", "RAND_RAND"}

\* Region counts given to init_regions and the constructor, and region
\* indices given to the deposits (2 is no region of any bin of the model).
RegionCounts == {-1, 0, 1, 2}

RegionArgs == {-1, 0, 1, 2}

Weights == {D(1)}

Steps == {1}

DWthetas == {D(-1), D(2)}

DWeights == {D(1)}

Scales == {D(2)}

Levels == {-1, 0, 1}

(***************************************************************************)
(* State of one angular_bin.  Per-region vectors are sequences: vec[k + 1] *)
(* is the C++ vec[k].                                                      *)
(***************************************************************************)
VARIABLES
    level_, n_region_,
    pair_weight_, pair_count_,
    gal_gal_, gal_rand_, rand_gal_, rand_rand_,
    pixel_wtheta_, pixel_weight_,
    wtheta_, wtheta_error_,
    pair_weight_region_, pair_counts_region_,
    gal_gal_region_, gal_rand_region_, rand_gal_region_, rand_rand_region_,
    pixel_wtheta_region_, pixel_weight_region_,
    wtheta_region_, wtheta_error_region_,
    set_wtheta_, set_wtheta_error_,
    claimed, attributed, n_ops,
    stomp_map, region_map_, region_area_, map_n_region_, region_resolution_,
    n_request, resolution_request, returned, exited, n_calls,
    theta_min_, theta_max_, sin2theta_min_, sin2theta_max_,
    costheta_min_, costheta_max_, asked, answer,
    acc, deposits,
    phases

globalVars == <<pair_weight_, pair_count_, gal_gal_, gal_rand_, rand_gal_,
                rand_rand_, pixel_wtheta_, pixel_weight_, wtheta_,
                wtheta_error_>>

regionVecVars == <<pair_weight_region_, pair_counts_region_, gal_gal_region_,
                   gal_rand_region_, rand_gal_region_, rand_rand_region_,
                   pixel_wtheta_region_, pixel_weight_region_, wtheta_region_,
                   wtheta_error_region_>>

cacheVars == <<set_wtheta_, set_wtheta_error_>>

binVars == <<level_, n_region_, globalVars, regionVecVars, cacheVars,
             claimed, attributed, n_ops>>

mapVars == <<stomp_map, region_map_, region_area_, map_n_region_,
             region_resolution_, n_request, resolution_request, returned,
             exited, n_calls>>

\* The angular limits of the bin, with asked and answer: the last query
\* made, of the limits or of a region map, and what it returned.
thetaVars == <<theta_min_, theta_max_, sin2theta_min_, sin2theta_max_,
               costheta_min_, costheta_max_, asked, answer>>

\* A bin whose sums are rounded as double sums are, and the deposits it took.
sumVars == <<acc, deposits>>

vars == <<binVars, mapVars, thetaVars, sumVars, phases>>

(***************************************************************************)
(* angular_bin: construction and the per-region vectors.                   *)
(***************************************************************************)
\* init_regions(n_regions) with one push_back fewer than n_regions.
ZerosOneShort(n) == [k \in 1 .. n - 1 |-> D(0)]

Zeros(n) == [k \in 1 .. n |-> D(0)]

IntZeros(n) == [k \in 1 .. n |-> 0]

NoDeposits(n) ==
    [pair_weight |-> Zeros(n), pair_count |-> IntZeros(n),
     pixel_wtheta |-> Zeros(n), pixel_weight |-> Zeros(n)]

\* clear_regions(): every per-region vector is emptied and n_region_ = 0.
ClearRegionsEffect ==
    /\ n_region_' = 0
    /\ pair_weight_region_' = <<>>
    /\ pair_counts_region_' = <<>>
    /\ gal_gal_region_' = <<>>
    /\ gal_rand_region_' = <<>>
    /\ rand_gal_region_' = <<>>
    /\ rand_rand_region_' = <<>>
    /\ pixel_wtheta_region_' = <<>>
    /\ pixel_weight_region_' = <<>>
    /\ wtheta_region_' = <<>>
    /\ wtheta_error_region_' = <<>>

\* init_regions(n_regions): clear_regions(), then, unless n_regions < 0,
\* n_regions zeros are pushed on every per-region vector.
InitRegionsEffect(n_regions) ==
    IF n_regions < 0
    THEN ClearRegionsEffect
    ELSE /\ n_region_' = n_regions
         /\ pair_weight_region_' = Zeros(n_regions)
         /\ pair_counts_region_' = IntZeros(n_regions)
         /\ gal_gal_region_' = Zeros(n_regions)
         /\ gal_rand_region_' = Zeros(n_regions)
         /\ rand_gal_region_' = Zeros(n_regions)
         /\ rand_rand_region_' = Zeros(n_regions)
         /\ pixel_wtheta_region_' = Zeros(n_regions)
         /\ pixel_weight_region_' = Zeros(n_regions)
         /\ wtheta_region_' = Zeros(n_regions)
         /\ wtheta_error_region_' = Zeros(n_regions)

\* The value the constructors give set_wtheta_ and set_wtheta_error_.
ConstructedFlag == FALSE

\* The value the constructors give level_.
ConstructedLevel == -1

\* angular_bin(theta_min, theta_max) leaves the bin without regions;
\* angular_bin(theta_min, theta_max, n_regions) calls init_regions.
BinConstructed(n_regions) ==
    /\ level_ = ConstructedLevel
    /\ pair_weight_ = D(0) /\ pair_count_ = 0
    /\ gal_gal_ = D(0) /\ gal_rand_ = D(0)
    /\ rand_gal_ = D(0) /\ rand_rand_ = D(0)
    /\ pixel_wtheta_ = D(0) /\ pixel_weight_ = D(0)
    /\ wtheta_ = D(0) /\ wtheta_error_ = D(0)
    /\ set_wtheta_ = ConstructedFlag /\ set_wtheta_error_ = ConstructedFlag
    /\ LET n == IF n_regions < 0 THEN 0 ELSE n_regions
       IN  /\ n_region_ = n
           /\ pair_weight_region_ = Zeros(n)
           /\ pair_counts_region_ = IntZeros(n)
           /\ gal_gal_region_ = Zeros(n)
           /\ gal_rand_region_ = Zeros(n)
           /\ rand_gal_region_ = Zeros(n)
           /\ rand_rand_region_ = Zeros(n)
           /\ pixel_wtheta_region_ = Zeros(n)
           /\ pixel_weight_region_ = Zeros(n)
           /\ wtheta_region_ = Zeros(n)
           /\ wtheta_error_region_ = Zeros(n)
           /\ claimed = NoDeposits(n)
           /\ attributed = NoDeposits(n)
    /\ n_ops = 0

InitBin == \E n_regions \in RegionCounts : BinConstructed(n_regions)

(***************************************************************************)
(* angular_bin: the deposits.  The region overloads add to the global      *)
(* accumulator and then, when neither region is -1, loop over k in         *)
(* [0, n_region_) and add to every per-region entry k that is neither      *)
(* region_a nor region_b.                                                  *)
(***************************************************************************)
\* LeaveOneOutAdd with a loop that leaves out region_a only.
LeaveOneOutAddIgnoresRegionB(vec, x, region_a, region_b) ==
    IF region_a # -1 /\ region_b # -1
    THEN [k \in 1 .. Len(vec) |->
            IF k <= n_region_ /\ (k - 1) # region_a
            THEN DAdd(vec[k], x) ELSE vec[k]]
    ELSE vec

LeaveOneOutAdd(vec, x, region_a, region_b) ==
    IF region_a # -1 /\ region_b # -1
    THEN [k \in 1 .. Len(vec) |->
            IF k <= n_region_ /\ (k - 1) # region_a /\ (k - 1) # region_b
            THEN DAdd(vec[k], x) ELSE vec[k]]
    ELSE vec

LeaveOneOutCount(vec, step, region_a, region_b) ==
    IF region_a # -1 /\ region_b # -1
    THEN [k \in 1 .. Len(vec) |->
            IF k <= n_region_ /\ (k - 1) # region_a /\ (k - 1) # region_b
            THEN vec[k] + step ELSE vec[k]]
    ELSE vec

(***************************************************************************)
(* History variables.  claimed[k] is the sum of the region-attributed      *)
(* deposits, made since the accumulator was last zeroed, whose regions     *)
(* both differ from k; attributed[k] counts of those only the deposits     *)
(* whose two regions are both real regions (neither is -1).                *)
(***************************************************************************)
Outside(k, region_a, region_b) == (k - 1) # region_a /\ (k - 1) # region_b

InRegions(region_a, region_b) == region_a # -1 /\ region_b # -1

ClaimedAdd(vec, x, region_a, region_b) ==
    [k \in 1 .. Len(vec) |->
        IF Outside(k, region_a, region_b) THEN DAdd(vec[k], x) ELSE vec[k]]

ClaimedCount(vec, step, region_a, region_b) ==
    [k \in 1 .. Len(vec) |->
        IF Outside(k, region_a, region_b) THEN vec[k] + step ELSE vec[k]]

AttributedAdd(vec, x, region_a, region_b) ==
    [k \in 1 .. Len(vec) |->
        IF Outside(k, region_a, region_b) /\ InRegions(region_a, region_b)
        THEN DAdd(vec[k], x) ELSE vec[k]]

AttributedCount(vec, step, region_a, region_b) ==
    [k \in 1 .. Len(vec) |->
        IF Outside(k, region_a, region_b) /\ InRegions(region_a, region_b)
        THEN vec[k] + step ELSE vec[k]]

\* The model bounds the number of deposits and rescalings of a run (the
\* calls that bring new values into the bin); the other calls are not
\* bounded.
DepositStep == n_ops < MaxOps /\ n_ops' = n_ops + 1

RescaleStep == n_ops < MaxOps /\ n_ops' = n_ops + 1

CallStep == UNCHANGED n_ops

\* add_to_pixel_wtheta(dwtheta, dweight)
AddToPixelWtheta(dwtheta, dweight) ==
    /\ DepositStep
    /\ pixel_wtheta_' = DAdd(pixel_wtheta_, dwtheta)
    /\ pixel_weight_' = DAdd(pixel_weight_, dweight)
    /\ UNCHANGED <<level_, n_region_, pair_weight_, pair_count_, gal_gal_,
                   gal_rand_, rand_gal_, rand_rand_, wtheta_, wtheta_error_,
                   regionVecVars, cacheVars, claimed, attributed,
                   mapVars, thetaVars, sumVars, phases>>

\* add_to_pixel_wtheta(dwtheta, dweight, region_a, region_b)
AddToPixelWthetaRegion(dwtheta, dweight, region_a, region_b) ==
    /\ DepositStep
    /\ pixel_wtheta_' = DAdd(pixel_wtheta_, dwtheta)
    /\ pixel_weight_' = DAdd(pixel_weight_, dweight)
    /\ pixel_wtheta_region_' =
          LeaveOneOutAdd(pixel_wtheta_region_, dwtheta, region_a, region_b)
    /\ pixel_weight_region_' =
          LeaveOneOutAdd(pixel_weight_region_, dweight, region_a, region_b)
    /\ claimed' = [claimed EXCEPT
          !.pixel_wtheta = ClaimedAdd(@, dwtheta, region_a, region_b),
          !.pixel_weight = ClaimedAdd(@, dweight, region_a, region_b)]
    /\ attributed' = [attributed EXCEPT
          !.pixel_wtheta = AttributedAdd(@, dwtheta, region_a, region_b),
          !.pixel_weight = AttributedAdd(@, dweight, region_a, region_b)]
    /\ UNCHANGED <<level_, n_region_, pair_weight_, pair_count_, gal_gal_,
                   gal_rand_, rand_gal_, rand_rand_, wtheta_, wtheta_error_,
                   pair_weight_region_, pair_counts_region_, gal_gal_region_,
                   gal_rand_region_, rand_gal_region_, rand_rand_region_,
                   wtheta_region_, wtheta_error_region_, cacheVars,
                   mapVars, thetaVars, sumVars, phases>>

\* add_to_weight(weight)
AddToWeightCall(weight) ==
    /\ pair_weight_' = DAdd(pair_weight_, weight)
    /\ UNCHANGED <<level_, n_region_, pair_count_, gal_gal_, gal_rand_,
                   rand_gal_, rand_rand_, pixel_wtheta_, pixel_weight_,
                   wtheta_, wtheta_error_, regionVecVars, cacheVars, claimed,
                   attributed>>

AddToWeight(weight) ==
    /\ DepositStep
    /\ AddToWeightCall(weight)
    /\ UNCHANGED <<mapVars, thetaVars, sumVars, phases>>

\* add_to_weight(weight, region_a, region_b)
AddToWeightRegionCall(weight, region_a, region_b) ==
    /\ pair_weight_' = DAdd(pair_weight_, weight)
    /\ pair_weight_region_' =
          LeaveOneOutAdd(pair_weight_region_, weight, region_a, region_b)
    /\ claimed' = [claimed EXCEPT
          !.pair_weight = ClaimedAdd(@, weight, region_a, region_b)]
    /\ attributed' = [attributed EXCEPT
          !.pair_weight = AttributedAdd(@, weight, region_a, region_b)]
    /\ UNCHANGED <<level_, n_region_, pair_count_, gal_gal_, gal_rand_,
                   rand_gal_, rand_rand_, pixel_wtheta_, pixel_weight_,
                   wtheta_, wtheta_error_, pair_counts_region_,
                   gal_gal_region_, gal_rand_region_, rand_gal_region_,
                   rand_rand_region_, pixel_wtheta_region_,
                   pixel_weight_region_, wtheta_region_, wtheta_error_region_,
                   cacheVars>>

AddToWeightRegion(weight, region_a, region_b) ==
    /\ DepositStep
    /\ AddToWeightRegionCall(weight, region_a, region_b)
    /\ UNCHANGED <<mapVars, thetaVars, sumVars, phases>>

\* add_to_counter(step)
AddToCounter(step) ==
    /\ DepositStep
    /\ pair_count_' = pair_count_ + step
    /\ UNCHANGED <<level_, n_region_, pair_weight_, gal_gal_, gal_rand_,
                   rand_gal_, rand_rand_, pixel_wtheta_, pixel_weight_,
                   wtheta_, wtheta_error_, regionVecVars, cacheVars, claimed,
                   attributed,
                   mapVars, thetaVars, sumVars, phases>>

\* add_to_counter(step, region_a, region_b)
AddToCounterRegion(step, region_a, region_b) ==
    /\ DepositStep
    /\ pair_count_' = pair_count_ + step
    /\ pair_counts_region_' =
          LeaveOneOutCount(pair_counts_region_, step, region_a, region_b)
    /\ claimed' = [claimed EXCEPT
          !.pair_count = ClaimedCount(@, step, region_a, region_b)]
    /\ attributed' = [attributed EXCEPT
          !.pair_count = AttributedCount(@, step, region_a, region_b)]
    /\ UNCHANGED <<level_, n_region_, pair_weight_, gal_gal_, gal_rand_,
                   rand_gal_, rand_rand_, pixel_wtheta_, pixel_weight_,
                   wtheta_, wtheta_error_, pair_weight_region_,
                   gal_gal_region_, gal_rand_region_, rand_gal_region_,
                   rand_rand_region_, pixel_wtheta_region_,
                   pixel_weight_region_, wtheta_region_, wtheta_error_region_,
                   cacheVars,
                   mapVars, thetaVars, sumVars, phases>>

\* add_to_pair_wtheta(weight, step)
AddToPairWtheta(weight, step) ==
    /\ DepositStep
    /\ pair_weight_' = DAdd(pair_weight_, weight)
    /\ pair_count_' = pair_count_ + step
    /\ UNCHANGED <<level_, n_region_, gal_gal_, gal_rand_, rand_gal_,
                   rand_rand_, pixel_wtheta_, pixel_weight_, wtheta_,
                   wtheta_error_, regionVecVars, cacheVars, claimed,
                   attributed,
                   mapVars, thetaVars, sumVars, phases>>

\* add_to_pair_wtheta(weight, step, region_a, region_b)
AddToPairWthetaRegion(weight, step, region_a, region_b) ==
    /\ DepositStep
    /\ pair_weight_' = DAdd(pair_weight_, weight)
    /\ pair_count_' = pair_count_ + step
    /\ pair_weight_region_' =
          LeaveOneOutAdd(pair_weight_region_, weight, region_a, region_b)
    /\ pair_counts_region_' =
          LeaveOneOutCount(pair_counts_region_, step, region_a, region_b)
    /\ claimed' = [claimed EXCEPT
          !.pair_weight = ClaimedAdd(@, weight, region_a, region_b),
          !.pair_count = ClaimedCount(@, step, region_a, region_b)]
    /\ attributed' = [attributed EXCEPT
          !.pair_weight = AttributedAdd(@, weight, region_a, region_b),
          !.pair_count = AttributedCount(@, step, region_a, region_b)]
    /\ UNCHANGED <<level_, n_region_, gal_gal_, gal_rand_, rand_gal_,
                   rand_rand_, pixel_wtheta_, pixel_weight_, wtheta_,
                   wtheta_error_, gal_gal_region_, gal_rand_region_,
                   rand_gal_region_, rand_rand_region_, pixel_wtheta_region_,
                   pixel_weight_region_, wtheta_region_, wtheta_error_region_,
                   cacheVars,
                   mapVars, thetaVars, sumVars, phases>>

(***************************************************************************)
(* angular_bin: move_weight, rescale_pair_counts and the resets.  Their    *)
(* loops run over k in [0, n_region_).                                     *)
(***************************************************************************)
VecAdd(vec, other) ==
    [k \in 1 .. Len(vec) |->
        IF k <= n_region_ THEN DAdd(vec[k], other[k]) ELSE vec[k]]

\* The per-region counters left as they are by a rescaling.
VecKept(vec, scale) == vec

VecDiv(vec, scale) ==
    [k \in 1 .. Len(vec) |->
        IF k <= n_region_ THEN DDiv(vec[k], scale) ELSE vec[k]]

\* The per-region weights left as they are by a move.
VecUntouched(vec) == vec

VecZero(vec) ==
    [k \in 1 .. Len(vec) |-> IF k <= n_region_ THEN D(0) ELSE vec[k]]

\* The per-region counts left as they are by a reset.
VecIntUntouched(vec) == vec

VecIntZero(vec) ==
    [k \in 1 .. Len(vec) |-> IF k <= n_region_ THEN 0 ELSE vec[k]]

\* move_weight(c)
MoveWeightCall(c) ==
    /\ gal_gal_' = IF c = "GAL_GAL" THEN DAdd(gal_gal_, pair_weight_)
                   ELSE gal_gal_
    /\ gal_rand_' = IF c = "GAL_RAND" THEN DAdd(gal_rand_, pair_weight_)
                    ELSE gal_rand_
    /\ rand_gal_' = IF c = "RAND_GAL" THEN DAdd(rand_gal_, pair_weight_)
                    ELSE rand_gal_
    /\ rand_rand_' = IF c = "RAND_RAND" THEN DAdd(rand_rand_, pair_weight_)
                     ELSE rand_rand_
    /\ pair_weight_' = D(0)
    /\ gal_gal_region_' =
          IF c = "GAL_GAL" THEN VecAdd(gal_gal_region_, pair_weight_region_)
          ELSE gal_gal_region_
    /\ gal_rand_region_' =
          IF c = "GAL_RAND" THEN VecAdd(gal_rand_region_, pair_weight_region_)
          ELSE gal_rand_region_
    /\ rand_gal_region_' =
          IF c = "RAND_GAL" THEN VecAdd(rand_gal_region_, pair_weight_region_)
          ELSE rand_gal_region_
    /\ rand_rand_region_' =
          IF c = "RAND_RAND"
          THEN VecAdd(rand_rand_region_, pair_weight_region_)
          ELSE rand_rand_region_
    /\ pair_weight_region_' = VecZero(pair_weight_region_)
    /\ claimed' = [claimed EXCEPT !.pair_weight = Zeros(Len(@))]
    /\ attributed' = [attributed EXCEPT !.pair_weight = Zeros(Len(@))]
    /\ UNCHANGED <<level_, n_region_, pair_count_, pixel_wtheta_,
                   pixel_weight_, wtheta_, wtheta_error_, pair_counts_region_,
                   pixel_wtheta_region_, pixel_weight_region_, wtheta_region_,
                   wtheta_error_region_, cacheVars>>

MoveWeight(c) ==
    /\ CallStep
    /\ MoveWeightCall(c)
    /\ UNCHANGED <<mapVars, thetaVars, sumVars, phases>>

\* rescale_pair_counts(c, scale)
RescalePairCounts(c, scale) ==
    /\ RescaleStep
    /\ gal_gal_' = IF c = "GAL_GAL" THEN DDiv(gal_gal_, scale) ELSE gal_gal_
    /\ gal_rand_' = IF c = "GAL_RAND" THEN DDiv(gal_rand_, scale)
                    ELSE gal_rand_
    /\ rand_gal_' = IF c = "RAND_GAL" THEN DDiv(rand_gal_, scale)
                    ELSE rand_gal_
    /\ rand_rand_' = IF c = "RAND_RAND" THEN DDiv(rand_rand_, scale)
                     ELSE rand_rand_
    /\ gal_gal_region_' = IF c = "GAL_GAL" THEN VecDiv(gal_gal_region_, scale)
                          ELSE gal_gal_region_
    /\ gal_rand_region_' =
          IF c = "GAL_RAND" THEN VecDiv(gal_rand_region_, scale)
          ELSE gal_rand_region_
    /\ rand_gal_region_' =
          IF c = "RAND_GAL" THEN VecDiv(rand_gal_region_, scale)
          ELSE rand_gal_region_
    /\ rand_rand_region_' =
          IF c = "RAND_RAND" THEN VecDiv(rand_rand_region_, scale)
          ELSE rand_rand_region_
    /\ UNCHANGED <<level_, n_region_, pair_weight_, pair_count_,
                   pixel_wtheta_, pixel_weight_, wtheta_, wtheta_error_,
                   pair_weight_region_, pair_counts_region_,
                   pixel_wtheta_region_, pixel_weight_region_, wtheta_region_,
                   wtheta_error_region_, cacheVars, claimed, attributed,
                  
                   mapVars, thetaVars, sumVars, phases>>

\* reset()
Reset ==
    /\ CallStep
    /\ pair_weight_' = D(0) /\ pair_count_' = 0
    /\ gal_gal_' = D(0) /\ gal_rand_' = D(0)
    /\ rand_gal_' = D(0) /\ rand_rand_' = D(0)
    /\ pixel_wtheta_' = D(0) /\ pixel_weight_' = D(0)
    /\ wtheta_' = D(0) /\ wtheta_error_' = D(0)
    /\ pair_weight_region_' = VecZero(pair_weight_region_)
    /\ pair_counts_region_' = VecIntZero(pair_counts_region_)
    /\ gal_gal_region_' = VecZero(gal_gal_region_)
    /\ gal_rand_region_' = VecZero(gal_rand_region_)
    /\ rand_gal_region_' = VecZero(rand_gal_region_)
    /\ rand_rand_region_' = VecZero(rand_rand_region_)
    /\ pixel_wtheta_region_' = VecZero(pixel_wtheta_region_)
    /\ pixel_weight_region_' = VecZero(pixel_weight_region_)
    /\ wtheta_region_' = VecZero(wtheta_region_)
    /\ wtheta_error_region_' = VecZero(wtheta_error_region_)
    /\ claimed' = NoDeposits(Len(claimed.pair_weight))
    /\ attributed' = NoDeposits(Len(attributed.pair_weight))
    /\ UNCHANGED <<level_, n_region_, cacheVars,
                   mapVars, thetaVars, sumVars, phases>>

\* reset_pixel_wtheta()
ResetPixelWtheta ==
    /\ CallStep
    /\ pixel_wtheta_' = D(0) /\ pixel_weight_' = D(0)
    /\ pixel_wtheta_region_' = VecZero(pixel_wtheta_region_)
    /\ pixel_weight_region_' = VecZero(pixel_weight_region_)
    /\ claimed' = [claimed EXCEPT !.pixel_wtheta = Zeros(Len(@)),
                                  !.pixel_weight = Zeros(Len(@))]
    /\ attributed' = [attributed EXCEPT !.pixel_wtheta = Zeros(Len(@)),
                                        !.pixel_weight = Zeros(Len(@))]
    /\ UNCHANGED <<level_, n_region_, pair_weight_, pair_count_, gal_gal_,
                   gal_rand_, rand_gal_, rand_rand_, wtheta_, wtheta_error_,
                   pair_weight_region_, pair_counts_region_, gal_gal_region_,
                   gal_rand_region_, rand_gal_region_, rand_rand_region_,
                   wtheta_region_, wtheta_error_region_, cacheVars,
                   mapVars, thetaVars, sumVars, phases>>

\* reset_weight()
ResetWeight ==
    /\ CallStep
    /\ pair_weight_' = D(0)
    /\ pair_weight_region_' = VecZero(pair_weight_region_)
    /\ claimed' = [claimed EXCEPT !.pair_weight = Zeros(Len(@))]
    /\ attributed' = [attributed EXCEPT !.pair_weight = Zeros(Len(@))]
    /\ UNCHANGED <<level_, n_region_, pair_count_, gal_gal_, gal_rand_,
                   rand_gal_, rand_rand_, pixel_wtheta_, pixel_weight_,
                   wtheta_, wtheta_error_, pair_counts_region_,
                   gal_gal_region_, gal_rand_region_, rand_gal_region_,
                   rand_rand_region_, pixel_wtheta_region_,
                   pixel_weight_region_, wtheta_region_, wtheta_error_region_,
                   cacheVars,
                   mapVars, thetaVars, sumVars, phases>>

\* reset_counter()
ResetCounter ==
    /\ CallStep
    /\ pair_count_' = 0
    /\ pair_counts_region_' = VecIntZero(pair_counts_region_)
    /\ claimed' = [claimed EXCEPT !.pair_count = IntZeros(Len(@))]
    /\ attributed' = [attributed EXCEPT !.pair_count = IntZeros(Len(@))]
    /\ UNCHANGED <<level_, n_region_, pair_weight_, gal_gal_, gal_rand_,
                   rand_gal_, rand_rand_, pixel_wtheta_, pixel_weight_,
                   wtheta_, wtheta_error_, pair_weight_region_,
                   gal_gal_region_, gal_rand_region_, rand_gal_region_,
                   rand_rand_region_, pixel_wtheta_region_,
                   pixel_weight_region_, wtheta_region_, wtheta_error_region_,
                   cacheVars,
                   mapVars, thetaVars, sumVars, phases>>

\* reset_pair_counts(c)
ResetPairCounts(c) ==
    /\ CallStep
    /\ gal_gal_' = IF c = "GAL_GAL" THEN D(0) ELSE gal_gal_
    /\ gal_rand_' = IF c = "GAL_RAND" THEN D(0) ELSE gal_rand_
    /\ rand_gal_' = IF c = "RAND_GAL" THEN D(0) ELSE rand_gal_
    /\ rand_rand_' = IF c = "RAND_RAND" THEN D(0) ELSE rand_rand_
    /\ gal_gal_region_' = IF c = "GAL_GAL" THEN VecZero(gal_gal_region_)
                          ELSE gal_gal_region_
    /\ gal_rand_region_' = IF c = "GAL_RAND" THEN VecZero(gal_rand_region_)
                           ELSE gal_rand_region_
    /\ rand_gal_region_' = IF c = "RAND_GAL" THEN VecZero(rand_gal_region_)
                           ELSE rand_gal_region_
    /\ rand_rand_region_' = IF c = "RAND_RAND" THEN VecZero(rand_rand_region_)
                            ELSE rand_rand_region_
    /\ UNCHANGED <<level_, n_region_, pair_weight_, pair_count_,
                   pixel_wtheta_, pixel_weight_, wtheta_, wtheta_error_,
                   pair_weight_region_, pair_counts_region_,
                   pixel_wtheta_region_, pixel_weight_region_, wtheta_region_,
                   wtheta_error_region_, cacheVars, claimed, attributed,
                  
                   mapVars, thetaVars, sumVars, phases>>

\* set_level(level)
SetLevel(level) ==
    /\ CallStep
    /\ level_' = level
    /\ UNCHANGED <<n_region_, globalVars, regionVecVars, cacheVars, claimed,
                   attributed,
                   mapVars, thetaVars, sumVars, phases>>

\* clear_regions()
ClearRegions ==
    /\ CallStep
    /\ ClearRegionsEffect
    /\ claimed' = NoDeposits(0)
    /\ attributed' = NoDeposits(0)
    /\ UNCHANGED <<level_, globalVars, cacheVars,
                   mapVars, thetaVars, sumVars, phases>>

\* init_regions(n_regions)
InitRegions(n_regions) ==
    /\ CallStep
    /\ InitRegionsEffect(n_regions)
    /\ claimed' = NoDeposits(IF n_regions < 0 THEN 0 ELSE n_regions)
    /\ attributed' = NoDeposits(IF n_regions < 0 THEN 0 ELSE n_regions)
    /\ UNCHANGED <<level_, globalVars, cacheVars,
                   mapVars, thetaVars, sumVars, phases>>

(***************************************************************************)
(* angular_bin: the estimators.  They are const methods, hence operators   *)
(* on the state.  A per-region read outside the vector is undefined        *)
(* behaviour; Indeterminate stands for whatever such a read yields.        *)
(***************************************************************************)
Indeterminate == [n |-> 0, d |-> -1]

ReadRegion(vec, region) ==
    IF region >= 0 /\ region < Len(vec) THEN vec[region + 1]
    ELSE Indeterminate

\* PairEstimate with rand_gal added instead of subtracted.
PairEstimateAddsRandGal(gal_gal, gal_rand, rand_gal, rand_rand) ==
    IF Indeterminate \in {gal_gal, gal_rand, rand_gal, rand_rand}
    THEN Indeterminate
    ELSE DDiv(DAdd(DAdd(DSub(gal_gal, gal_rand), rand_gal), rand_rand),
              rand_rand)

\* (gal_gal - gal_rand - rand_gal + rand_rand) / rand_rand
PairEstimate(gal_gal, gal_rand, rand_gal, rand_rand) ==
    IF Indeterminate \in {gal_gal, gal_rand, rand_gal, rand_rand}
    THEN Indeterminate
    ELSE DDiv(DAdd(DSub(DSub(gal_gal, gal_rand), rand_gal), rand_rand),
              rand_rand)

\* PixelEstimate with the ratio inverted.
PixelEstimateInverted(pixel_wtheta, pixel_weight) ==
    IF Indeterminate \in {pixel_wtheta, pixel_weight} THEN Indeterminate
    ELSE DDiv(pixel_weight, pixel_wtheta)

\* pixel_wtheta / pixel_weight
PixelEstimate(pixel_wtheta, pixel_weight) ==
    IF Indeterminate \in {pixel_wtheta, pixel_weight} THEN Indeterminate
    ELSE DDiv(pixel_wtheta, pixel_weight)

\* wtheta()
Wtheta ==
    IF set_wtheta_ THEN wtheta_
    ELSE IF level_ = -1
         THEN PairEstimate(gal_gal_, gal_rand_, rand_gal_, rand_rand_)
         ELSE PixelEstimate(pixel_wtheta_, pixel_weight_)

\* wtheta(region) with every region answered with the global
\* estimate.
WthetaRegionGlobal(region) ==
    IF region = -1 \/ region < n_region_ THEN Wtheta ELSE D(-1)

\* wtheta(region)
WthetaRegion(region) ==
    IF set_wtheta_
    THEN (IF region = -1 THEN wtheta_
          ELSE IF region < n_region_ THEN ReadRegion(wtheta_region_, region)
          ELSE D(-1))
    ELSE IF level_ = -1
    THEN (IF region = -1
          THEN PairEstimate(gal_gal_, gal_rand_, rand_gal_, rand_rand_)
          ELSE IF region < n_region_
          THEN PairEstimate(ReadRegion(gal_gal_region_, region),
                            ReadRegion(gal_rand_region_, region),
                            ReadRegion(rand_gal_region_, region),
                            ReadRegion(rand_rand_region_, region))
          ELSE D(-1))
    ELSE (IF region = -1 THEN PixelEstimate(pixel_wtheta_, pixel_weight_)
          ELSE IF region < n_region_
          THEN PixelEstimate(ReadRegion(pixel_wtheta_region_, region),
                             ReadRegion(pixel_weight_region_, region))
          ELSE D(-1))

\* mean_wtheta(): the running sum after the first k regions.
RECURSIVE MeanWthetaSum(_)
MeanWthetaSum(k) ==
    IF k = 0 THEN D(0)
    ELSE DAdd(MeanWthetaSum(k - 1),
              DDiv(WthetaRegion(k - 1), DMul(D(1), D(n_region_))))

\* mean_wtheta()
MeanWtheta == MeanWthetaSum(n_region_)

\* mean_wtheta_error(): the running sum of squared deviations after the
\* first k regions.
RECURSIVE SquaredDeviationSum(_)
SquaredDeviationSum(k) ==
    IF k = 0 THEN D(0)
    ELSE DAdd(SquaredDeviationSum(k - 1),
              DMul(DSub(MeanWtheta, WthetaRegion(k - 1)),
                   DSub(MeanWtheta, WthetaRegion(k - 1))))

\* mean_wtheta_error() returns (n_region_ - 1.0) * sqrt(sum) / n_region_, a
\* value that is not negative; the model carries its square,
\* (n_region_ - 1)^2 * sum / n_region_^2.
MeanWthetaErrorSquared ==
    IF n_region_ = 0 THEN D(0)
    ELSE DDiv(DMul(DMul(D(n_region_ - 1), D(n_region_ - 1)),
                   SquaredDeviationSum(n_region_)),
              D(n_region_ * n_region_))

\* wtheta_error() and wtheta_error(region) return 1.0 / sqrt(x) or -1.0;
\* the model carries the square of the value with the sign of the value:
\* 1 / x for 1.0 / sqrt(x), which is +infinity for x = 0 and not a number
\* for x < 0, and -1 for -1.0.
InverseRootSquared(x) ==
    IF x = Indeterminate THEN Indeterminate
    ELSE IF IsNaN(x) \/ x.n < 0 THEN NaN
    ELSE DDiv(D(1), x)

\* wtheta_error()
WthetaErrorSquared ==
    IF set_wtheta_error_ THEN DMul(wtheta_error_, wtheta_error_)
    ELSE IF level_ = -1 THEN InverseRootSquared(gal_gal_)
    ELSE InverseRootSquared(pixel_weight_)

\* wtheta_error(region)
WthetaErrorRegionSquared(region) ==
    IF set_wtheta_error_
    THEN (IF region = -1 THEN DMul(wtheta_error_, wtheta_error_)
          ELSE IF region < n_region_
          THEN LET e == ReadRegion(wtheta_error_region_, region)
               IN  IF e = Indeterminate THEN e ELSE DMul(e, e)
          ELSE D(-1))
    ELSE IF level_ = 0
    THEN (IF region = -1 THEN InverseRootSquared(gal_gal_)
          ELSE IF region < n_region_
          THEN InverseRootSquared(ReadRegion(gal_gal_region_, region))
          ELSE D(-1))
    ELSE (IF region = -1 THEN InverseRootSquared(pixel_weight_)
          ELSE IF region < n_region_
          THEN InverseRootSquared(ReadRegion(pixel_weight_region_, region))
          ELSE D(-1))

(***************************************************************************)
(* The angular_bin specification.                                          *)
(***************************************************************************)
(***************************************************************************)
(* angular_bin: the angular limits and the level.                          *)
(*                                                                         *)
(* Angles are whole degrees.  A cosine or a squared sine is counted in     *)
(* thousandths, rounded to the nearest one.  The tolerance of double_ge    *)
(* and double_le is one unit of whichever quantity is compared, so that a  *)
(* value can lie outside a range by less than, exactly, or more than the   *)
(* tolerance.                                                              *)
(***************************************************************************)
ThetaChoices == {0, 15, 30, 60, 90, 120}

\* cos(theta * DEG_TO_RAD)
Cos(theta) ==
    CASE theta = 0 -> 1000
      [] theta = 15 -> 966
      [] theta = 30 -> 866
      [] theta = 60 -> 500
      [] theta = 90 -> 0
      [] theta = 120 -> -500

\* sin(theta * DEG_TO_RAD) * sin(theta * DEG_TO_RAD)
Sin2(theta) ==
    CASE theta = 0 -> 0
      [] theta = 15 -> 67
      [] theta = 30 -> 250
      [] theta = 60 -> 750
      [] theta = 90 -> 1000
      [] theta = 120 -> 750

Tolerance == 1

\* double_ge(a, b) and double_le(a, b)
DoubleGE(a, b) == a >= b - Tolerance

DoubleLE(a, b) == a <= b + Tolerance

\* What the constructors leave in the angular limits: set_theta_min and
\* set_theta_max have been called.
ThetaConstructed(theta_min, theta_max) ==
    /\ theta_min_ = theta_min
    /\ sin2theta_min_ = Sin2(theta_min)
    /\ costheta_max_ = Cos(theta_min)
    /\ theta_max_ = theta_max
    /\ sin2theta_max_ = Sin2(theta_max)
    /\ costheta_min_ = Cos(theta_max)
    /\ asked = <<>>
    /\ answer = <<>>

\* The bin of the specifications that do not move the angular limits.
ThetaIdle == ThetaConstructed(30, 60)

\* set_theta_min(theta_min)
SetThetaMin(theta_min) ==
    /\ theta_min_' = theta_min
    /\ sin2theta_min_' = Sin2(theta_min)
    /\ costheta_max_' = Cos(theta_min)
    /\ asked' = <<"set_theta_min", theta_min>>
    /\ answer' = <<>>
    /\ UNCHANGED <<theta_max_, sin2theta_max_, costheta_min_, binVars, mapVars,
                   sumVars, phases>>

\* set_theta_max(theta_max)
SetThetaMax(theta_max) ==
    /\ theta_max_' = theta_max
    /\ sin2theta_max_' = Sin2(theta_max)
    /\ costheta_min_' = Cos(theta_max)
    /\ asked' = <<"set_theta_max", theta_max>>
    /\ answer' = <<>>
    /\ UNCHANGED <<theta_min_, sin2theta_min_, costheta_max_, binVars, mapVars,
                   sumVars, phases>>

\* is_within_bounds with theta_min itself left out.
IsWithinBoundsAboveMin(theta) ==
    theta > theta_min_ /\ DoubleLE(theta, theta_max_)

\* is_within_bounds(theta)
IsWithinBounds(theta) ==
    DoubleGE(theta, theta_min_) /\ DoubleLE(theta, theta_max_)

\* is_within_sin2_bounds(sin2theta)
IsWithinSin2Bounds(sin2theta) ==
    DoubleGE(sin2theta, sin2theta_min_) /\ DoubleLE(sin2theta, sin2theta_max_)

\* is_within_cos_bounds(costheta)
IsWithinCosBounds(costheta) ==
    DoubleGE(costheta, costheta_min_) /\ DoubleLE(costheta, costheta_max_)

Margins == {-2, -1, 0, 1, 2}

ThetaProbes == {t + e : t \in ThetaChoices, e \in Margins}

Sin2Probes == {Sin2(t) + e : t \in ThetaChoices, e \in Margins}

CosProbes == {Cos(t) + e : t \in ThetaChoices, e \in Margins}

\* A call of one of the three tests: the limits stay as they are.
IsWithinBoundsCall(theta) ==
    /\ asked' = <<"is_within_bounds", theta>>
    /\ answer' = <<IsWithinBounds(theta)>>
    /\ UNCHANGED <<theta_min_, theta_max_, sin2theta_min_, sin2theta_max_,
                   costheta_min_, costheta_max_, binVars, mapVars,
                   sumVars, phases>>

IsWithinSin2BoundsCall(sin2theta) ==
    /\ asked' = <<"is_within_sin2_bounds", sin2theta>>
    /\ answer' = <<IsWithinSin2Bounds(sin2theta)>>
    /\ UNCHANGED <<theta_min_, theta_max_, sin2theta_min_, sin2theta_max_,
                   costheta_min_, costheta_max_, binVars, mapVars,
                   sumVars, phases>>

IsWithinCosBoundsCall(costheta) ==
    /\ asked' = <<"is_within_cos_bounds", costheta>>
    /\ answer' = <<IsWithinCosBounds(costheta)>>
    /\ UNCHANGED <<theta_min_, theta_max_, sin2theta_min_, sin2theta_max_,
                   costheta_min_, costheta_max_, binVars, mapVars,
                   sumVars, phases>>

\* The levels of the pixelization are 0 .. MAX_LEVEL - 1.
MAX_LEVEL == 4

ScaleAtLevelZero == 120

\* sqrt(2.0 * pixel::average_area(level)): the area quarters with every
\* level, so the scale halves.
Scale(level) == ScaleAtLevelZero \div (2 ^ level)

\* The loop of find_level without the test for a scale below theta_min.
RECURSIVE FindLevelLoopWithinOnly(_)
FindLevelLoopWithinOnly(level) ==
    IF level >= MAX_LEVEL THEN -1
    ELSE IF IsWithinBounds(Scale(level)) THEN level
         ELSE FindLevelLoopWithinOnly(level + 1)

\* The loop of find_level, from the given level on.
RECURSIVE FindLevelLoop(_)
FindLevelLoop(level) ==
    IF level >= MAX_LEVEL THEN -1
    ELSE IF IsWithinBounds(Scale(level)) \/ Scale(level) < theta_min_
         THEN level
         ELSE FindLevelLoop(level + 1)

\* find_level()
FindLevel ==
    /\ level_' = FindLevelLoop(0)
    /\ asked' = <<"find_level">>
    /\ answer' = <<>>
    /\ UNCHANGED <<n_region_, globalVars, regionVecVars, cacheVars, claimed,
                   attributed, n_ops, mapVars, theta_min_, theta_max_,
                   sin2theta_min_, sin2theta_max_, costheta_min_,
                   costheta_max_, sumVars, phases>>

(***************************************************************************)
(* angular_bin: the deposits with the rounding of the sums kept.           *)
(*                                                                         *)
(* A double holds MantissaBits significant bits (53 in the program, fewer  *)
(* here) and a sum is rounded to the nearest such value, ties to the even  *)
(* one.  The deposits are whole numbers, so the values are integers.  acc  *)
(* is a bin of DepositRegions regions and deposits the calls it took, in   *)
(* the order it took them.                                                 *)
(***************************************************************************)
MantissaBits == 2

RECURSIVE BitLength(_)
BitLength(n) == IF n = 0 THEN 0 ELSE 1 + BitLength(n \div 2)

\* The double nearest to the whole number n >= 0.
Round(n) ==
    IF BitLength(n) <= MantissaBits THEN n
    ELSE LET unit == 2 ^ (BitLength(n) - MantissaBits)
             q == n \div unit
             r == n % unit
         IN  IF 2 * r > unit \/ (2 * r = unit /\ q % 2 = 1)
             THEN (q + 1) * unit
             ELSE q * unit

\* double += double, and long += long
RoundedPlus(a, b) == Round(a + b)

\* pair_count_ = step in place of pair_count_ += step.
LongPlusLast(a, b) == b

LongPlus(a, b) == a + b

\* double += double, were no sum ever rounded
ExactPlus(a, b) == a + b

MaxDeposits == 3

DepositRegions == 2

\* The deposits made: add_to_weight is not among them, add_to_pair_wtheta
\* adds to the pair weight as it does.
DepositKinds == {"pixel_wtheta", "counter", "pair_wtheta"}

DepositValues == {1, 4}

\* <<>> stands for the overload without regions.
DepositRegionArgs == {<<>>, <<0, 0>>}

Deposits ==
    [kind : DepositKinds, x : DepositValues, regions : DepositRegionArgs]

EmptyBin(n) ==
    [pixel_wtheta |-> 0, pixel_weight |-> 0, pair_weight |-> 0,
     pair_count |-> 0, pixel_wtheta_region |-> IntZeros(n),
     pixel_weight_region |-> IntZeros(n), pair_weight_region |-> IntZeros(n),
     pair_counts_region |-> IntZeros(n)]

\* sum += x, the sum being a long, a double, or a double that is never
\* rounded.
Accumulated(sum, x, type) ==
    CASE type = "long" -> LongPlus(sum, x)
      [] type = "double" -> RoundedPlus(sum, x)
      [] type = "exact" -> ExactPlus(sum, x)

\* The region loop of the overloads with regions; nothing for the others.
LeaveOneOutWith(vec, x, regions, type) ==
    IF regions = <<>> THEN vec
    ELSE IF regions[1] # -1 /\ regions[2] # -1
         THEN [k \in 1 .. Len(vec) |->
                 IF (k - 1) # regions[1] /\ (k - 1) # regions[2]
                 THEN Accumulated(vec[k], x, type) ELSE vec[k]]
         ELSE vec

\* The bin after the deposit d, double being the type of the sums of
\* doubles: add_to_pixel_wtheta(x, 1.0), add_to_weight(x), add_to_counter(x)
\* and add_to_pair_wtheta(x, 1), with or without regions.
DepositInto(bin, d, double) ==
    CASE d.kind = "pixel_wtheta" ->
           [bin EXCEPT
              !.pixel_wtheta = Accumulated(@, d.x, double),
              !.pixel_weight = Accumulated(@, 1, double),
              !.pixel_wtheta_region =
                  LeaveOneOutWith(@, d.x, d.regions, double),
              !.pixel_weight_region = LeaveOneOutWith(@, 1, d.regions, double)]
      [] d.kind = "weight" ->
           [bin EXCEPT
              !.pair_weight = Accumulated(@, d.x, double),
              !.pair_weight_region =
                  LeaveOneOutWith(@, d.x, d.regions, double)]
      [] d.kind = "counter" ->
           [bin EXCEPT
              !.pair_count = Accumulated(@, d.x, "long"),
              !.pair_counts_region =
                  LeaveOneOutWith(@, d.x, d.regions, "long")]
      [] d.kind = "pair_wtheta" ->
           [bin EXCEPT
              !.pair_weight = Accumulated(@, d.x, double),
              !.pair_count = Accumulated(@, 1, "long"),
              !.pair_weight_region =
                  LeaveOneOutWith(@, d.x, d.regions, double),
              !.pair_counts_region = LeaveOneOutWith(@, 1, d.regions, "long")]

\* One call of add_to_pixel_wtheta, add_to_weight, add_to_counter or
\* add_to_pair_wtheta on the bin.
Deposit(d) ==
    /\ Len(deposits) < MaxDeposits
    /\ acc' = DepositInto(acc, d, "double")
    /\ deposits' = Append(deposits, d)
    /\ UNCHANGED <<binVars, mapVars, thetaVars, phases>>

\* No such bin is in use.
SumIdle == acc = EmptyBin(0) /\ deposits = <<>> /\ phases = <<>>

MapIdle ==
    /\ stomp_map = <<>>
    /\ region_map_ = <<>>
    /\ region_area_ = <<>>
    /\ map_n_region_ = 0
    /\ region_resolution_ = 0
    /\ n_request = 0
    /\ resolution_request = 0
    /\ returned = <<>>
    /\ exited = 0
    /\ n_calls = 0

Init == InitBin /\ MapIdle /\ ThetaIdle /\ SumIdle

Next ==
    \/ \E n \in RegionCounts : InitRegions(n)
    \/ ClearRegions
    \/ \E l \in Levels : SetLevel(l)
    \/ \E x \in DWthetas, w \in DWeights : AddToPixelWtheta(x, w)
    \/ \E x \in DWthetas, w \in DWeights, a \in RegionArgs, b \in RegionArgs :
          AddToPixelWthetaRegion(x, w, a, b)
    \/ \E w \in Weights : AddToWeight(w)
    \/ \E w \in Weights, a \in RegionArgs, b \in RegionArgs :
          AddToWeightRegion(w, a, b)
    \/ \E n \in Steps : AddToCounter(n)
    \/ \E n \in Steps, a \in RegionArgs, b \in RegionArgs :
          AddToCounterRegion(n, a, b)
    \/ \E w \in Weights, n \in Steps : AddToPairWtheta(w, n)
    \/ \E w \in Weights, n \in Steps, a \in RegionArgs, b \in RegionArgs :
          AddToPairWthetaRegion(w, n, a, b)
    \/ \E c \in Counter : MoveWeight(c)
    \/ \E c \in Counter, x \in Scales : RescalePairCounts(c, x)
    \/ Reset
    \/ ResetPixelWtheta
    \/ ResetWeight
    \/ ResetCounter
    \/ \E c \in Counter : ResetPairCounts(c)

Spec == Init /\ [][Next]_vars

\* The angular limits and the level on their own, for bins of any limits.
ThetaInit ==
    /\ BinConstructed(-1)
    /\ MapIdle
    /\ SumIdle
    /\ \E theta_min \in ThetaChoices, theta_max \in ThetaChoices :
          ThetaConstructed(theta_min, theta_max)

ThetaNext ==
    \/ \E t \in ThetaChoices : SetThetaMin(t)
    \/ \E t \in ThetaChoices : SetThetaMax(t)
    \/ \E v \in ThetaProbes : IsWithinBoundsCall(v)
    \/ \E v \in Sin2Probes : IsWithinSin2BoundsCall(v)
    \/ \E v \in CosProbes : IsWithinCosBoundsCall(v)
    \/ FindLevel

ThetaSpec == ThetaInit /\ [][ThetaNext]_vars

\* The deposits on their own, on a bin of DepositRegions regions.
DepositInit ==
    /\ BinConstructed(-1)
    /\ MapIdle
    /\ ThetaIdle
    /\ acc = EmptyBin(DepositRegions)
    /\ deposits = <<>>
    /\ phases = <<>>

DepositNext == \E d \in Deposits : Deposit(d)

DepositSpec == DepositInit /\ [][DepositNext]_vars

(***************************************************************************)
(* angular_bin: a counting run.  The weight of a phase is deposited with   *)
(* add_to_weight and then moved to a counter with move_weight; phases is   *)
(* the calls made so far.                                                  *)
(***************************************************************************)
MaxPhaseDeposits == 1

PhaseCount == 3

PhaseRegions == 2

PhaseWeights == {D(1), D(2)}

\* The regions given to the overload with regions.
PhaseRegionArgs == {<<0, 0>>}

IsMove(call) == call.call = "move_weight"

MovesMade == Cardinality({i \in DOMAIN phases : IsMove(phases[i])})

\* The position of the first call of the phase that is open.
OpenPhaseStart ==
    IF MovesMade = 0 THEN 1
    ELSE 1 + CHOOSE i \in DOMAIN phases :
                /\ IsMove(phases[i])
                /\ \A j \in DOMAIN phases : IsMove(phases[j]) => j <= i

PhaseOpen ==
    /\ MovesMade < PhaseCount
    /\ Len(phases) - OpenPhaseStart + 1 < MaxPhaseDeposits

PhaseAddToWeight(weight) ==
    /\ PhaseOpen
    /\ AddToWeightCall(weight)
    /\ phases' = Append(phases, [call |-> "add_to_weight", arg |-> weight,
                                 regions |-> <<>>])
    /\ UNCHANGED <<n_ops, mapVars, thetaVars, sumVars>>

PhaseAddToWeightRegion(weight, region_a, region_b) ==
    /\ PhaseOpen
    /\ AddToWeightRegionCall(weight, region_a, region_b)
    /\ phases' = Append(phases, [call |-> "add_to_weight", arg |-> weight,
                                 regions |-> <<region_a, region_b>>])
    /\ UNCHANGED <<n_ops, mapVars, thetaVars, sumVars>>

PhaseMoveWeight(c) ==
    /\ MovesMade < PhaseCount
    /\ MoveWeightCall(c)
    /\ phases' = Append(phases, [call |-> "move_weight", arg |-> c,
                                 regions |-> <<>>])
    /\ UNCHANGED <<n_ops, mapVars, thetaVars, sumVars>>

PhaseInit ==
    /\ BinConstructed(PhaseRegions)
    /\ MapIdle
    /\ ThetaIdle
    /\ SumIdle

PhaseNext ==
    \/ \E w \in PhaseWeights : PhaseAddToWeight(w)
    \/ \E w \in Weights, r \in PhaseRegionArgs :
          PhaseAddToWeightRegion(w, r[1], r[2])
    \/ \E c \in Counter : PhaseMoveWeight(c)

PhaseSpec == PhaseInit /\ [][PhaseNext]_vars

(***************************************************************************)
(* Stomp::RegionMap.                                                       *)
(*                                                                         *)
(* The BaseMap a RegionMap works for is abstract in the sources (Area,     *)
(* MaxResolution and Coverage are virtual).  stomp_map is a record         *)
(*   [area, max_resolution, pixels]                                        *)
(* of what the three return; pixels is the vector Coverage hands back at   *)
(* the region resolution, each pixel a record [pixnum, stripe, weight].    *)
(* Areas are integers: the unit is half the area of a pixel at resolution  *)
(* FinestResolution, and a pixel's weight is counted in halves (weight 2   *)
(* is a fully covered pixel).                                              *)
(***************************************************************************)
HPixResolution == 4

FinestResolution == 2048

WeightUnit == 2

\* Pixel::PixelArea(resolution): the area of a pixel quarters with every
\* doubling of the resolution.
PixelArea(resolution) ==
    WeightUnit * (FinestResolution \div resolution)
               * (FinestResolution \div resolution)

\* iter->Weight() * unit_area
WeightedArea(pix, resolution) ==
    pix.weight * (FinestResolution \div resolution)
               * (FinestResolution \div resolution)

\* The grid the model's maps are cut from: a pixel is a column of a stripe.
StripeChoices == {0, 1, 3}

Columns == {0, 1}

WeightChoices == {1, 2}

MapResolutions == {1024}

Cells == StripeChoices \X Columns

\* Pixel::Pixnum() and Pixel::Stripe(): pixels are numbered stripe by stripe.
Pixnum(stripe, column) == stripe * Cardinality(Columns) + column

RECURSIVE ByPixnum(_)
ByPixnum(pixels) ==
    IF pixels = {} THEN <<>>
    ELSE LET first == CHOOSE p \in pixels :
                         \A q \in pixels : p.pixnum <= q.pixnum
         IN  <<first>> \o ByPixnum(pixels \ {first})

\* The loop summing unit_area*iter->Weight() over the pixels.  The sum is
\* taken half by half, which keeps the evaluation shallow on long coverages.
RECURSIVE SumArea(_, _)
SumArea(pixels, resolution) ==
    IF pixels = <<>> THEN 0
    ELSE IF Len(pixels) = 1 THEN WeightedArea(pixels[1], resolution)
    ELSE LET half == Len(pixels) \div 2
         IN  SumArea(SubSeq(pixels, 1, half), resolution)
             + SumArea(SubSeq(pixels, half + 1, Len(pixels)), resolution)

\* A map of the given resolution covering the cells with the given weights:
\* its area is the weighted area of its pixels and its coverage at its own
\* resolution is its pixels, in the order of their numbers.
MapOf(resolution, cells, weight) ==
    LET pixels == ByPixnum({[pixnum |-> Pixnum(c[1], c[2]), stripe |-> c[1],
                             weight |-> weight[c]] : c \in cells})
    IN  [area |-> SumArea(pixels, resolution),
         max_resolution |-> resolution,
         pixels |-> pixels]

Maps ==
    UNION { UNION { { MapOf(r, cells, weight) :
                        weight \in [cells -> WeightChoices] } :
                    cells \in (SUBSET Cells) \ {{}} } :
            r \in MapResolutions }

MaxN == 4

MaxCalls == 2

Uint8Modulus == 256

NoRegions == [p \in {} |-> 0]

\* RegionMap::ClearRegions(): region_area_ is not touched.
ClearRegionsMapEffect ==
    /\ region_map_' = NoRegions
    /\ map_n_region_' = 0
    /\ region_resolution_' = 0

LoopCap == 1024

\* DoublingLoop stopping at the resolution the warning starts from.
RECURSIVE DoublingLoopToWarning(_, _, _)
DoublingLoopToWarning(resolution, area, n_region) ==
    IF PixelArea(resolution) * 50 * n_region > area /\ resolution < 256
    THEN DoublingLoopToWarning(2 * resolution, area, n_region)
    ELSE resolution

\* The while loop of _FindRegionResolution.
RECURSIVE DoublingLoop(_, _, _)
DoublingLoop(resolution, area, n_region) ==
    IF PixelArea(resolution) * 50 * n_region > area /\ resolution < LoopCap
    THEN DoublingLoop(2 * resolution, area, n_region)
    ELSE resolution

WarnAbove == 256

FailAbove == 2048

\* RegionMap::_FindRegionResolution(base_map, n_region, region_resolution):
\* the value given to region_resolution_, and whether exit(1) is reached.
FindRegionResolution(base_map, n_region, resolution) ==
    LET chosen == IF resolution = 0
                  THEN DoublingLoop(HPixResolution, base_map.area, n_region)
                  ELSE resolution
    IN  IF chosen > WarnAbove /\ chosen > FailAbove
        THEN [exit |-> 1, resolution |-> 0]
        ELSE [exit |-> 0,
              resolution |-> IF chosen > base_map.max_resolution
                             THEN base_map.max_resolution ELSE chosen]

\* RegionMap::_FindUniqueStripes: the stripes of the coverage, ascending.
RECURSIVE Ascending(_)
Ascending(stripes) ==
    IF stripes = {} THEN <<>>
    ELSE LET first == CHOOSE a \in stripes : \A b \in stripes : a <= b
         IN  <<first>> \o Ascending(stripes \ {first})

FindUniqueStripes(coverage_pix) ==
    Ascending({coverage_pix[i].stripe : i \in 1..Len(coverage_pix)})

\* First loop of _FindSections: the runs of adjacent stripes.  i is the
\* 1-based position of the stripe looked at, so the code's i = 1 is i = 2.
RECURSIVE ContiguousSections(_, _, _)
ContiguousSections(unique_stripes, i, contiguous_section) ==
    IF i > Len(unique_stripes) THEN contiguous_section
    ELSE LET j == Len(contiguous_section)
         IN  IF unique_stripes[i] = unique_stripes[i - 1] + 1
             THEN ContiguousSections(unique_stripes, i + 1,
                      [contiguous_section EXCEPT
                           ![j].max_stripe = unique_stripes[i]])
             ELSE ContiguousSections(unique_stripes, i + 1,
                      Append(contiguous_section,
                             [min_stripe |-> unique_stripes[i],
                              max_stripe |-> unique_stripes[i]]))

\* region_length * Nx0 * region_resolution_ / 360.0, squared, is
\* (base_map_area / n_region) / PixelArea(region_resolution_) times the
\* aspect of a pixel (its area over the square of its width in degrees),
\* AspectNum / AspectDen for every resolution.
AspectNum == 881

AspectDen == 1000

Uint8Max == 255

RECURSIVE WidthSearch(_, _, _, _)
WidthSearch(width, base_map_area, n_region, resolution) ==
    IF (width + 1) * (width + 1) * n_region * PixelArea(resolution) * AspectDen
           > AspectNum * base_map_area
    THEN width
    ELSE WidthSearch(width + 1, base_map_area, n_region, resolution)

\* The values region_width can take.  The cast of a double that does not fit
\* a uint8_t (division by an n_region of zero included) is undefined: any
\* width may come out of it.
RegionWidths(base_map_area, n_region, resolution) ==
    IF n_region = 0 THEN 1..Uint8Max
    ELSE LET width == WidthSearch(0, base_map_area, n_region, resolution)
         IN  IF width > Uint8Max THEN 1..Uint8Max
             ELSE IF width = 0 THEN {1} ELSE {width}

\* The whole run of stripes made one section, whatever the width.
SplitSectionWhole(stripe_iter, max_stripe, section_iter, region_width, sectionVec) ==
    Append(sectionVec, [min_stripe |-> stripe_iter, max_stripe |-> max_stripe])

\* Inner loop of _FindSections over one run of stripes.
RECURSIVE SplitSection(_, _, _, _, _)
SplitSection(stripe_iter, max_stripe, section_iter, region_width, sectionVec) ==
    IF stripe_iter > max_stripe THEN sectionVec
    ELSE IF section_iter = region_width
         THEN SplitSection(stripe_iter + 1, max_stripe, 1, region_width,
                  Append(sectionVec, [min_stripe |-> stripe_iter,
                                      max_stripe |-> stripe_iter]))
         ELSE SplitSection(stripe_iter + 1, max_stripe, section_iter + 1,
                  region_width,
                  [sectionVec EXCEPT ![Len(sectionVec)].max_stripe = stripe_iter])

RECURSIVE SplitSections(_, _, _)
SplitSections(contiguous_section, region_width, sectionVec) ==
    IF contiguous_section = <<>> THEN sectionVec
    ELSE SplitSections(Tail(contiguous_section), region_width,
             SplitSection(Head(contiguous_section).min_stripe,
                          Head(contiguous_section).max_stripe,
                          region_width, region_width, sectionVec))

\* RegionMap::_FindSections, for the region_width the cast produced.
FindSections(unique_stripes, region_width) ==
    SplitSections(
        ContiguousSections(unique_stripes, 2,
            <<[min_stripe |-> unique_stripes[1],
               max_stripe |-> unique_stripes[1]]>>),
        region_width, <<>>)

\* f with the entry for key set to value, as std::map's operator[] does.
Put(f, key, value) ==
    [k \in DOMAIN f \cup {key} |-> IF k = key THEN value ELSE f[k]]

\* BelowBreak without the 0.75*mean_area.
BelowBreakNoMargin(region_area, base_map_area, size, n_region, region_iter) ==
    IF n_region = 0 THEN TRUE
    ELSE n_region * region_area < base_map_area * (region_iter + 1)

\* region_area + 0.75*mean_area < area_break*(region_iter+1), with
\* mean_area = base_map_area/size and area_break = base_map_area/n_region,
\* multiplied through by 4*size*n_region.  With n_region = 0 the break is
\* infinite and the comparison holds.
BelowBreak(region_area, base_map_area, size, n_region, region_iter) ==
    IF n_region = 0 THEN TRUE
    ELSE 4 * size * n_region * region_area + 3 * n_region * base_map_area
             < 4 * size * base_map_area * (region_iter + 1)

\* InSection with the last stripe of the section left out.
InSectionBelowMax(pix, sec) ==
    pix.stripe >= sec.min_stripe /\ pix.stripe < sec.max_stripe

InSection(pix, sec) ==
    pix.stripe >= sec.min_stripe /\ pix.stripe <= sec.max_stripe

\* The body of the inner loop of _Regionate for one pixel of the section.
RegionatePixel(sweep, pix, unit, base_map_area, size, n_region) ==
    IF \/ BelowBreak(sweep.region_area, base_map_area, size, n_region,
                     sweep.region_iter)
       \/ sweep.region_iter = n_region - 1
    THEN [sweep EXCEPT
              !.region_area = @ + pix.weight * unit,
              !.region_map = Put(@, pix.pixnum, sweep.region_iter),
              !.running_area = @ + pix.weight * unit]
    ELSE [sweep EXCEPT
              !.region_areas = Put(@, sweep.region_iter, sweep.running_area),
              !.region_iter = @ + 1,
              !.region_area = @ + pix.weight * unit,
              !.region_map = Put(@, pix.pixnum, sweep.region_iter + 1),
              !.running_area = pix.weight * unit]

\* The inner loop of _Regionate over the pixels of the coverage at positions
\* i to j, in that order: every one of them that lies in the section.  The
\* positions are gone through half by half, which keeps the evaluation
\* shallow on long coverages; the first half is completed (region_iter only
\* ever grows, so the test holds) before the second is entered.
RECURSIVE RegionateSection(_, _, _, _, _, _, _, _)
RegionateSection(sweep, coverage_pix, i, j, sec, unit, base_map_area, n_region) ==
    IF i > j THEN sweep
    ELSE IF i = j
    THEN IF InSection(coverage_pix[i], sec)
         THEN RegionatePixel(sweep, coverage_pix[i], unit, base_map_area,
                             Len(coverage_pix), n_region)
         ELSE sweep
    ELSE LET mid == (i + j) \div 2
             first == RegionateSection(sweep, coverage_pix, i, mid, sec, unit,
                                       base_map_area, n_region)
         IN  IF first.region_iter >= sweep.region_iter
             THEN RegionateSection(first, coverage_pix, mid + 1, j, sec, unit,
                                   base_map_area, n_region)
             ELSE first

RECURSIVE RegionateSections(_, _, _, _, _, _)
RegionateSections(sweep, coverage_pix, sectionVec, unit, base_area, n_region) ==
    IF sectionVec = <<>> THEN sweep
    ELSE RegionateSections(
             RegionateSection(sweep, coverage_pix, 1, Len(coverage_pix),
                              Head(sectionVec), unit, base_area, n_region),
             coverage_pix, Tail(sectionVec), unit, base_area, n_region)

StartingRegionIndex == 0

\* RegionMap::_Regionate(coverage_pix, sectionVec, n_region): the region map
\* and the region areas it leaves, given the ones it finds.
Regionate(coverage_pix, sectionVec, n_region, resolution, region_map, areas) ==
    LET unit == (FinestResolution \div resolution)
                    * (FinestResolution \div resolution)
        swept == RegionateSections(
                     [region_area |-> 0, running_area |-> 0,
                      region_iter |-> StartingRegionIndex,
                      region_map |-> region_map,
                      region_areas |-> areas],
                     coverage_pix, sectionVec, unit,
                     SumArea(coverage_pix, resolution), n_region)
    IN  [region_map |-> swept.region_map,
         region_areas |-> Put(swept.region_areas, swept.region_iter,
                              swept.running_area)]

\* OnePerRegion counting the regions from 1.
OnePerRegionFromOne(coverage_pix) ==
    [p \in {coverage_pix[i].pixnum : i \in 1..Len(coverage_pix)} |->
        CHOOSE i \in 1..Len(coverage_pix) : coverage_pix[i].pixnum = p]

\* The one-pixel-per-region loop of InitializeRegions.
OnePerRegion(coverage_pix) ==
    [p \in {coverage_pix[i].pixnum : i \in 1..Len(coverage_pix)} |->
        (CHOOSE i \in 1..Len(coverage_pix) : coverage_pix[i].pixnum = p) - 1]

\* The region_count_check loop: no pixel has a region index of n_region or
\* more.
LegalRegions(region_map, n_region) ==
    \A p \in DOMAIN region_map : region_map[p] < n_region

ResolutionArgs == {0, 1024, 2048, 4096}

\* returned holds the value of the last call when that call was an
\* InitializeRegions that returned, and nothing otherwise.
NoReturn == <<>>

\* RegionMap::InitializeRegions(stomp_map, n_region, region_resolution).
\* The coverage of the map is modelled at the map's own resolution only, so
\* the call is made with resolutions that resolve to it.
InitializeRegions(n, resolution) ==
    /\ exited = 0
    /\ n_calls < MaxCalls
    /\ LET found == FindRegionResolution(stomp_map, n, resolution)
           coverage_pix == stomp_map.pixels
           size == Len(coverage_pix)
           n_region == IF n > size THEN size ELSE n
           regionated == n_region /= size
       IN  /\ found.exit = 1 \/ found.resolution = stomp_map.max_resolution
           /\ \E sectionVec \in
                    IF found.exit = 0 /\ regionated
                    THEN {FindSections(FindUniqueStripes(coverage_pix),
                                       region_width) :
                            region_width \in
                              RegionWidths(stomp_map.area,
                                           n_region % Uint8Modulus,
                                           found.resolution)}
                    ELSE {<<>>} :
                 LET done ==
                       IF regionated
                       THEN Regionate(coverage_pix, sectionVec,
                                n_region % Uint8Modulus, found.resolution,
                                NoRegions, region_area_)
                       ELSE [region_map |-> OnePerRegion(coverage_pix),
                             region_areas |-> region_area_]
                 IN  IF found.exit = 1
                     THEN /\ ClearRegionsMapEffect
                          /\ exited' = 1
                          /\ returned' = NoReturn
                          /\ UNCHANGED region_area_
                     ELSE /\ region_resolution_' = found.resolution
                          /\ region_map_' = done.region_map
                          /\ region_area_' = done.region_areas
                          /\ IF LegalRegions(done.region_map, n_region)
                             THEN /\ map_n_region_' =
                                        Cardinality(DOMAIN done.region_areas)
                                  /\ returned' =
                                        <<Cardinality(DOMAIN done.region_areas)>>
                                  /\ exited' = 0
                             ELSE /\ map_n_region_' = 0
                                  /\ returned' = NoReturn
                                  /\ exited' = 2
    /\ n_request' = n
    /\ n_calls' = n_calls + 1
    /\ UNCHANGED <<stomp_map, resolution_request,
                   binVars, thetaVars, sumVars, phases>>

\* RegionMap::ClearRegions().
ClearRegionMap ==
    /\ exited = 0
    /\ ClearRegionsMapEffect
    /\ returned' = NoReturn
    /\ UNCHANGED <<stomp_map, region_area_, n_request, resolution_request,
                   exited, n_calls,
                   binVars, thetaVars, sumVars, phases>>

\* RegionMap(): the constructor calls ClearRegions() on an empty map.
RegionInit ==
    /\ BinConstructed(-1)
    /\ ThetaIdle
    /\ SumIdle
    /\ stomp_map \in Maps
    /\ region_map_ = NoRegions
    /\ region_area_ = NoRegions
    /\ map_n_region_ = 0
    /\ region_resolution_ = 0
    /\ n_request = 0
    /\ resolution_request = 0
    /\ returned = NoReturn
    /\ exited = 0
    /\ n_calls = 0

RegionNext ==
    \/ \E n \in 1..MaxN, r \in ResolutionArgs : InitializeRegions(n, r)
    \/ ClearRegionMap

RegionSpec == RegionInit /\ [][RegionNext]_vars

(***************************************************************************)
(* Stomp::RegionMap: the lookups.  asked is the lookup made last and       *)
(* answer what it returned.                                                *)
(***************************************************************************)
\* map.find(key) != map.end(), answered TRUE for every key.
FoundAlways(map, key) == TRUE

\* map.find(key) != map.end()
Found(map, key) == key \in DOMAIN map

\* The map after map[key] was evaluated: std::map's operator[] inserts a
\* zero for a key that has no entry.
Subscripted(map, key) == IF key \in DOMAIN map THEN map ELSE Put(map, key, 0)

LookupPoints == Cells

LookupPixnums == {Pixnum(c[1], c[2]) : c \in Cells}

LookupRegions == -1 .. 2

\* The maps the lookups are made on: a coverage of one or two pixels.
LookupMaps == {m \in Maps : Len(m.pixels) <= 2}

\* RegionMap::Region(region_idx)
RegionCall(region_idx) ==
    /\ exited = 0
    /\ asked' = <<"Region", region_idx>>
    /\ IF Found(region_map_, region_idx)
       THEN /\ region_map_' = Subscripted(region_map_, region_idx)
            /\ answer' = <<region_map_'[region_idx]>>
       ELSE /\ region_map_' = region_map_
            /\ answer' = <<-1>>
    /\ UNCHANGED <<stomp_map, region_area_, map_n_region_,
                   region_resolution_, n_request, resolution_request,
                   returned, exited, n_calls, theta_min_, theta_max_,
                   sin2theta_min_, sin2theta_max_, costheta_min_,
                   costheta_max_, binVars, sumVars, phases>>

\* RegionMap::FindRegion(ang): tmp_pix is the pixel of the region
\* resolution that holds the point, here the cell the point lies in.
FindRegionCall(ang) ==
    /\ exited = 0
    /\ asked' = <<"FindRegion", ang>>
    /\ LET tmp_pix == Pixnum(ang[1], ang[2])
       IN  IF Found(region_map_, tmp_pix)
           THEN /\ region_map_' = Subscripted(region_map_, tmp_pix)
                /\ answer' = <<region_map_'[tmp_pix]>>
           ELSE /\ region_map_' = region_map_
                /\ answer' = <<-1>>
    /\ UNCHANGED <<stomp_map, region_area_, map_n_region_,
                   region_resolution_, n_request, resolution_request,
                   returned, exited, n_calls, theta_min_, theta_max_,
                   sin2theta_min_, sin2theta_max_, costheta_min_,
                   costheta_max_, binVars, sumVars, phases>>

\* RegionMap::RegionArea(region)
RegionAreaCall(region) ==
    /\ exited = 0
    /\ asked' = <<"RegionArea", region>>
    /\ IF Found(region_area_, region)
       THEN /\ region_area_' = Subscripted(region_area_, region)
            /\ answer' = <<region_area_'[region]>>
       ELSE /\ region_area_' = region_area_
            /\ answer' = <<0>>
    /\ UNCHANGED <<stomp_map, region_map_, map_n_region_,
                   region_resolution_, n_request, resolution_request,
                   returned, exited, n_calls, theta_min_, theta_max_,
                   sin2theta_min_, sin2theta_max_, costheta_min_,
                   costheta_max_, binVars, sumVars, phases>>

LookupInit == RegionInit /\ stomp_map \in LookupMaps

LookupNext ==
    \/ \E n \in 1..MaxN, r \in ResolutionArgs : InitializeRegions(n, r)
    \/ ClearRegionMap
    \/ \E region_idx \in LookupPixnums : RegionCall(region_idx)
    \/ \E ang \in LookupPoints : FindRegionCall(ang)
    \/ \E region \in LookupRegions : RegionAreaCall(region)

LookupSpec == LookupInit /\ [][LookupNext]_vars

(***************************************************************************)
(* Stomp::RegionMap: InitializeRegions(base_map, stomp_map), which copies  *)
(* the regions of a reference map.  stomp_map is the reference: its        *)
(* coverage at its region resolution (pixels), the regions its Region()    *)
(* returns (a pixel without an entry has none, and Region() returns -1),   *)
(* its NRegion() and its RegionResolution().  Its coverage is taken at the *)
(* region resolution, where SuperPix() of a pixel is the pixel itself.     *)
(***************************************************************************)
Uint16Modulus == 65536

\* The coverage of a reference: one to three pixels, each with region 0 or
\* 1 or with none.
ReferenceCells == {cells \in SUBSET Cells : Cardinality(cells) \in 1 .. 3}

ReferenceRegions == {0, 1}

References ==
    UNION { UNION { { [pixels |-> ByPixnum({[pixnum |-> Pixnum(c[1], c[2]),
                                             stripe |-> c[1], weight |-> 2] :
                                            c \in cells}),
                      regions |-> regions,
                      n_region |-> Cardinality(ReferenceRegions),
                      region_resolution |-> 1024] :
                        regions \in [{Pixnum(c[1], c[2]) : c \in with}
                                        -> ReferenceRegions] } :
                    with \in SUBSET cells } :
            cells \in ReferenceCells }

\* BaseMap::Region of the reference.
ReferenceRegion(reference, pixnum) ==
    IF pixnum \in DOMAIN reference.regions THEN reference.regions[pixnum]
    ELSE -1

\* The loop over the coverage, from pixel i on: the entries written until
\* the first pixel without a region, and whether one was met.
RECURSIVE CopyLoop(_, _, _)
CopyLoop(reference, i, region_map) ==
    IF i > Len(reference.pixels)
    THEN [region_map |-> region_map, initialized_region_map |-> TRUE]
    ELSE LET pixnum == reference.pixels[i].pixnum
             region == ReferenceRegion(reference, pixnum)
         IN  IF region # -1
             THEN CopyLoop(reference, i + 1, Put(region_map, pixnum, region))
             ELSE [region_map |-> region_map,
                   initialized_region_map |-> FALSE]

\* The value of exited when the call does not return: on a pixel without a
\* region the loop sets iter to coverage_pix.end() and then increments it,
\* which is undefined; the loop may end there or run on past the end of
\* the vector.
PastTheEnd == 3

\* RegionMap::InitializeRegions(base_map, stomp_map); returned holds the
\* boolean the call returns.  n_region_ is held as NRegion() returns it, a
\* uint16_t: the -1 stored on failure reads 65535.
InitializeRegionsFrom ==
    /\ exited = 0
    /\ n_calls < MaxCalls
    /\ LET done == CopyLoop(stomp_map, 1, NoRegions)
       IN  /\ region_map_' = done.region_map
           /\ IF done.initialized_region_map
              THEN /\ region_resolution_' = stomp_map.region_resolution
                   /\ map_n_region_' = stomp_map.n_region
                   /\ returned' = <<TRUE>>
                   /\ exited' = 0
              ELSE \/ /\ region_resolution_' = 0
                      /\ map_n_region_' = (-1) % Uint16Modulus
                      /\ returned' = <<FALSE>>
                      /\ exited' = 0
                   \/ /\ region_resolution_' = stomp_map.region_resolution
                      /\ map_n_region_' = stomp_map.n_region
                      /\ returned' = NoReturn
                      /\ exited' = PastTheEnd
    /\ n_calls' = n_calls + 1
    /\ UNCHANGED <<stomp_map, region_area_, n_request, resolution_request,
                   binVars, thetaVars, sumVars, phases>>

ReferenceInit ==
    /\ BinConstructed(-1)
    /\ ThetaIdle
    /\ SumIdle
    /\ stomp_map \in References
    /\ region_map_ = NoRegions
    /\ region_area_ = NoRegions
    /\ map_n_region_ = 0
    /\ region_resolution_ = 0
    /\ n_request = 0
    /\ resolution_request = 0
    /\ returned = NoReturn
    /\ exited = 0
    /\ n_calls = 0

ReferenceNext ==
    \/ InitializeRegionsFrom
    \/ ClearRegionMap

ReferenceSpec == ReferenceInit /\ [][ReferenceNext]_vars

(***************************************************************************)
(* Stomp::RegionMap: _FindSections on its own, for stripes and region      *)
(* widths of any kind.  asked holds the stripes and the width of the last  *)
(* call and answer the sections it made.                                   *)
(***************************************************************************)
MaxStripe == 5

MaxWidth == 3

StripeSets == (SUBSET (0 .. MaxStripe)) \ {{}}

FindSectionsCall(stripes, region_width) ==
    /\ asked' = <<"_FindSections", Ascending(stripes), region_width>>
    /\ answer' = <<FindSections(Ascending(stripes), region_width)>>
    /\ UNCHANGED <<theta_min_, theta_max_, sin2theta_min_, sin2theta_max_,
                   costheta_min_, costheta_max_, binVars, mapVars, sumVars,
                   phases>>

SectionInit ==
    /\ BinConstructed(-1)
    /\ MapIdle
    /\ ThetaIdle
    /\ SumIdle

SectionNext ==
    \E stripes \in StripeSets, region_width \in 1 .. MaxWidth :
       FindSectionsCall(stripes, region_width)

SectionSpec == SectionInit /\ [][SectionNext]_vars

\* _FindRegionResolution on its own, for maps of any area and limit.
AreaSteps == {HPixResolution, 8, 128, 256, 512, 1024}

MapAreas ==
    {50 * k * PixelArea(r) + e : k \in {1, 2}, r \in AreaSteps, e \in {-1, 0, 1}}

MapLimits == {128, 1024, 32768}

ResolutionRequests == {0, HPixResolution, 256, 512, 2048, 4096}

ResolutionInit ==
    /\ BinConstructed(-1)
    /\ ThetaIdle
    /\ SumIdle
    /\ \E area \in MapAreas, limit \in MapLimits :
          stomp_map = [area |-> area, max_resolution |-> limit,
                       pixels |-> <<>>]
    /\ region_map_ = NoRegions
    /\ region_area_ = NoRegions
    /\ map_n_region_ = 0
    /\ region_resolution_ = 0
    /\ n_request = 0
    /\ resolution_request = 0
    /\ returned = NoReturn
    /\ exited = 0
    /\ n_calls = 0

FindRegionResolutionCall(n, resolution) ==
    /\ exited = 0
    /\ n_calls < MaxCalls
    /\ LET found == FindRegionResolution(stomp_map, n, resolution)
       IN  /\ exited' = found.exit
           /\ region_resolution_' = found.resolution
    /\ n_request' = n
    /\ resolution_request' = resolution
    /\ n_calls' = n_calls + 1
    /\ UNCHANGED <<stomp_map, region_map_, region_area_, map_n_region_,
                   returned,
                   binVars, thetaVars, sumVars, phases>>

ResolutionNext ==
    \E n \in 1..MaxN, r \in ResolutionRequests : FindRegionResolutionCall(n, r)

ResolutionSpec == ResolutionInit /\ [][ResolutionNext]_vars

\* RegionMap::Region(region_idx)
Region(region_idx) ==
    IF region_idx \in DOMAIN region_map_ THEN region_map_[region_idx] ELSE -1

\* RegionMap::RegionArea(region)
RegionArea(region) ==
    IF region \in DOMAIN region_area_ THEN region_area_[region] ELSE 0

\* RegionMap::NRegion()
NRegion == map_n_region_

\* RegionMap::Initialized()
Initialized == map_n_region_ > 0

(***************************************************************************)
(* Properties of angular_bin.                                              *)
(***************************************************************************)
RegionIndices == 0 .. (n_region_ - 1)

\* C1 as stated: every per-region accumulator k holds the sum of all the
\* region-attributed deposits whose region_a and region_b both differ from
\* k, whatever the two regions are.
C1_LeaveOneOutAnyRegions ==
    /\ pair_weight_region_ = claimed.pair_weight
    /\ pair_counts_region_ = claimed.pair_count
    /\ pixel_wtheta_region_ = claimed.pixel_wtheta
    /\ pixel_weight_region_ = claimed.pixel_weight

\* C1 amended: every per-region accumulator k in [0, n_region_) holds the
\* sum of the region-attributed deposits, made since the accumulator was
\* last zeroed, whose region_a and region_b both differ from -1 and from k;
\* a deposit with region_a = -1 or region_b = -1 reaches no per-region
\* accumulator.
C1_LeaveOneOut ==
    /\ Len(pair_weight_region_) = n_region_
    /\ pair_weight_region_ = attributed.pair_weight
    /\ pair_counts_region_ = attributed.pair_count
    /\ pixel_wtheta_region_ = attributed.pixel_wtheta
    /\ pixel_weight_region_ = attributed.pixel_weight

\* Two deposits, one leaving out region 0 and one leaving out region 1.
C1_Witness ==
    /\ n_region_ = 2
    /\ pair_weight_ = D(2)
    /\ pair_weight_region_ = <<D(1), D(1)>>
    /\ pair_counts_region_ = <<0, 1>>

\* The Landy-Szalay value of four pair counters, (GG + RR - (GR + RG)) / RR.
LandySzalay(gg, gr, rg, rr) == DDiv(DSub(DAdd(gg, rr), DAdd(gr, rg)), rr)

\* C2: for a pair bin (level_ = -1) wtheta() is the Landy-Szalay value of
\* the four global pair counters; when rand_rand_ is finite and not zero,
\* wtheta() * rand_rand_ = gal_gal_ - gal_rand_ - rand_gal_ + rand_rand_.
C2_PairWtheta ==
    level_ = -1 =>
        /\ Wtheta = LandySzalay(gal_gal_, gal_rand_, rand_gal_, rand_rand_)
        /\ (IsFinite(rand_rand_) /\ rand_rand_ # D(0)) =>
              DMul(Wtheta, rand_rand_) =
                 DAdd(DSub(DSub(gal_gal_, gal_rand_), rand_gal_), rand_rand_)

C2_Witness ==
    /\ level_ = -1
    /\ gal_gal_ = D(1) /\ rand_rand_ = D(1)
    /\ Wtheta = D(2)

\* C3: for a pixel bin (level_ # -1) wtheta() is pixel_wtheta_ /
\* pixel_weight_, and a step that changes neither of the two pixel sums nor
\* the level leaves wtheta() unchanged, whatever it does to the pair
\* counters.
C3_PixelRatio ==
    level_ # -1 =>
        /\ Wtheta = DDiv(pixel_wtheta_, pixel_weight_)
        /\ (IsFinite(pixel_weight_) /\ pixel_weight_ # D(0)) =>
              DMul(Wtheta, pixel_weight_) = pixel_wtheta_

C3_PairCountersIgnored ==
    (/\ level_ # -1
     /\ level_' = level_
     /\ pixel_wtheta_' = pixel_wtheta_
     /\ pixel_weight_' = pixel_weight_) => Wtheta' = Wtheta

C3_PixelWtheta == [](C3_PixelRatio) /\ [][C3_PairCountersIgnored]_vars

C3_Witness ==
    /\ level_ # -1
    /\ pixel_wtheta_ = D(2) /\ pixel_weight_ = D(1)
    /\ gal_gal_ = D(1)
    /\ Wtheta = D(2)

\* C4: wtheta(k), 0 <= k < n_region_, is the estimator of the bin's kind on
\* the k-th accumulators, and wtheta(-1) = wtheta().
C4_RegionWtheta ==
    /\ WthetaRegion(-1) = Wtheta
    /\ \A k \in RegionIndices :
          WthetaRegion(k) =
             IF level_ = -1
             THEN LandySzalay(gal_gal_region_[k + 1], gal_rand_region_[k + 1],
                              rand_gal_region_[k + 1], rand_rand_region_[k + 1])
             ELSE DDiv(pixel_wtheta_region_[k + 1], pixel_weight_region_[k + 1])

C4_Witness ==
    /\ n_region_ = 2
    /\ level_ = -1
    /\ gal_gal_region_ = <<D(1), D(0)>>
    /\ rand_rand_region_ = <<D(1), D(1)>>
    /\ WthetaRegion(0) = D(2)
    /\ WthetaRegion(1) = D(1)
    /\ Wtheta = D(2)

\* The sum of wtheta(k) over the first k regions.
RECURSIVE WthetaTotal(_)
WthetaTotal(k) ==
    IF k = 0 THEN D(0) ELSE DAdd(WthetaTotal(k - 1), WthetaRegion(k - 1))

ArithmeticMean == DDiv(WthetaTotal(n_region_), D(n_region_))

\* The sum over the first k regions of (wtheta(k) - mean)^2.
RECURSIVE DeviationTotal(_)
DeviationTotal(k) ==
    IF k = 0 THEN D(0)
    ELSE DAdd(DeviationTotal(k - 1),
              DMul(DSub(WthetaRegion(k - 1), ArithmeticMean),
                   DSub(WthetaRegion(k - 1), ArithmeticMean)))

\* C5: with N >= 1 regions whose estimates are all finite, mean_wtheta() is
\* the arithmetic mean of wtheta(k) and the error e returned by
\* mean_wtheta_error() satisfies N * e^2 = (N - 1) * sum_k (wtheta(k) - mean)^2.
C5_JackknifeError ==
    (n_region_ >= 1 /\ \A k \in RegionIndices : IsFinite(WthetaRegion(k))) =>
        /\ MeanWtheta = ArithmeticMean
        /\ DMul(D(n_region_), MeanWthetaErrorSquared) =
              DMul(D(n_region_ - 1), DeviationTotal(n_region_))

\* C6: a zero denominator makes wtheta() not-a-number.
C6_ZeroDenominatorIsNaN ==
    /\ (level_ = -1 /\ rand_rand_ = D(0)) => IsNaN(Wtheta)
    /\ (level_ # -1 /\ pixel_weight_ = D(0)) => IsNaN(Wtheta)

(***************************************************************************)
(* Properties of Stomp::RegionMap.                                         *)
(***************************************************************************)
CoveragePixnums == {stomp_map.pixels[i].pixnum : i \in 1..Len(stomp_map.pixels)}

RegionsInUse == {region_map_[p] : p \in DOMAIN region_map_}

Returned == returned /= NoReturn

\* The requested count, lowered to the number of coverage pixels.
EffectiveCount ==
    IF n_request > Len(stomp_map.pixels) THEN Len(stomp_map.pixels)
    ELSE n_request

\* C7: after InitializeRegions returns, the pixels with an entry in the
\* region map are exactly the pixels of the coverage (a map holds one entry
\* per key), and every entry is a region index from 0 up to, but not
\* including, the requested count lowered to the number of coverage pixels.
C7_EveryPixelOneRegion ==
    Returned =>
        /\ DOMAIN region_map_ = CoveragePixnums
        /\ \A p \in CoveragePixnums :
              Region(p) >= 0 /\ Region(p) < EffectiveCount

\* Three pixels asked into two regions: both regions are in use.
C7_Witness ==
    /\ Returned
    /\ n_request = 2
    /\ Len(stomp_map.pixels) = 3
    /\ RegionsInUse = {0, 1}

RECURSIVE SumRegionArea(_)
SumRegionArea(regions) ==
    IF regions = {} THEN 0
    ELSE LET k == CHOOSE r \in regions : TRUE
         IN  RegionArea(k) + SumRegionArea(regions \ {k})

\* C8: after InitializeRegions returns, RegionArea(k) summed over the region
\* indices equals the weighted area of the coverage, whatever count was
\* requested.
C8_AreaConserved ==
    Returned =>
        SumRegionArea(DOMAIN region_area_ \cup RegionsInUse)
            = SumArea(stomp_map.pixels, region_resolution_)

\* C9: the value InitializeRegions returns, and NRegion() after it, is the
\* number of regions that received at least one coverage pixel.
C9_ReturnsRegionsInUse ==
    Returned =>
        /\ returned[1] = Cardinality(RegionsInUse)
        /\ NRegion = Cardinality(RegionsInUse)

(***************************************************************************)
(* Properties of _FindRegionResolution.                                    *)
(***************************************************************************)
\* The resolutions doubling reaches from the base resolution.
Doublings == {HPixResolution, 8, 16, 32, 64, 128, 256, 512, 1024, 2048}

\* A pixel at resolution r is no larger than map area / (50 * N).
SmallEnough(r) == PixelArea(r) * 50 * n_request <= stomp_map.area

AutoChosen == n_calls > 0 /\ resolution_request = 0 /\ exited = 0

\* C10 as stated: with region_resolution = 0 the resolution chosen is the
\* smallest doubling of the base resolution whose pixels are small enough,
\* and it is at most 256.
C10_SmallestUpTo256 ==
    AutoChosen =>
        /\ region_resolution_ \in Doublings
        /\ SmallEnough(region_resolution_)
        /\ \A r \in Doublings : r < region_resolution_ => ~SmallEnough(r)
        /\ region_resolution_ <= 256

\* The smallest doubling below 1024 whose pixels are small enough, or 1024
\* when there is none.
SmallestOr1024 ==
    LET fits == {r \in Doublings : r < 1024 /\ SmallEnough(r)}
    IN  IF fits = {} THEN 1024
        ELSE CHOOSE r \in fits : \A q \in fits : r <= q

\* C10, amended: with region_resolution = 0 the resolution chosen is the
\* smallest doubling of the base resolution whose pixels are small enough,
\* or 1024 when no doubling below 1024 is, lowered to the map's maximum
\* resolution when it exceeds it; it never exceeds 1024.
C10_SmallestUpTo1024 ==
    AutoChosen =>
        /\ region_resolution_ =
              IF SmallestOr1024 > stomp_map.max_resolution
              THEN stomp_map.max_resolution ELSE SmallestOr1024
        /\ region_resolution_ <= 1024

\* A map too small for 50 * N pixels at 256: the search goes on to 512.
C10_Witness ==
    /\ AutoChosen
    /\ ~SmallEnough(256)
    /\ SmallEnough(512)
    /\ region_resolution_ = 512

(***************************************************************************)
(* Properties of the angular limits and of find_level.                     *)
(***************************************************************************)
LevelFound == asked = <<"find_level">>

AllLevels == 0 .. (MAX_LEVEL - 1)

Inclusive(accepted, lo, hi, probes) ==
    /\ lo <= hi => lo \in accepted /\ hi \in accepted
    /\ \A v \in probes :
          /\ lo <= v /\ v <= hi => v \in accepted
          /\ v < lo - Tolerance \/ v > hi + Tolerance => v \notin accepted

\* C12: the three tests are inclusive on their ranges: [theta_min,
\* theta_max] for is_within_bounds, the squared sines of the two limits for
\* is_within_sin2_bounds, and [cos(theta_max), cos(theta_min)] for
\* is_within_cos_bounds, whatever calls of set_theta_min and set_theta_max
\* were made.
C12_InclusiveBounds ==
    /\ Inclusive({v \in ThetaProbes : IsWithinBounds(v)},
                 theta_min_, theta_max_, ThetaProbes)
    /\ Inclusive({v \in Sin2Probes : IsWithinSin2Bounds(v)},
                 Sin2(theta_min_), Sin2(theta_max_), Sin2Probes)
    /\ Inclusive({v \in CosProbes : IsWithinCosBounds(v)},
                 Cos(theta_max_), Cos(theta_min_), CosProbes)

\* With limits of 30 and 60 degrees the cosine test was asked about a value
\* above cos(30 degrees) by exactly the tolerance, and accepted it.
C12_Witness ==
    /\ theta_min_ = 30
    /\ theta_max_ = 60
    /\ asked = <<"is_within_cos_bounds", Cos(30) + Tolerance>>
    /\ answer = <<TRUE>>

(***************************************************************************)
(* Properties of the deposits.                                             *)
(***************************************************************************)
RECURSIVE RoundedFold(_, _)
RoundedFold(bin, calls) ==
    IF calls = <<>> THEN bin
    ELSE RoundedFold(DepositInto(bin, Head(calls), "double"), Tail(calls))

RECURSIVE ExactFold(_, _)
ExactFold(bin, calls) ==
    IF calls = <<>> THEN bin
    ELSE ExactFold(DepositInto(bin, Head(calls), "exact"), Tail(calls))

Fresh == EmptyBin(DepositRegions)

\* The orders the deposits can be applied in, and the deposits in one.
Orders ==
    {f \in [1 .. Len(deposits) -> 1 .. Len(deposits)] :
        \A i, j \in 1 .. Len(deposits) : i # j => f[i] # f[j]}

Reordered(f) == [i \in 1 .. Len(deposits) |-> deposits[f[i]]]

\* The deposits whose positions are in part, in the order they were made.
RECURSIVE PartFrom(_, _)
PartFrom(part, i) ==
    IF i > Len(deposits) THEN <<>>
    ELSE IF i \in part THEN <<deposits[i]>> \o PartFrom(part, i + 1)
         ELSE PartFrom(part, i + 1)

Parts == SUBSET (1 .. Len(deposits))

Others(part) == (1 .. Len(deposits)) \ part

SumVec(v, w, type) == [k \in 1 .. Len(v) |-> Accumulated(v[k], w[k], type)]

\* The accumulators of two bins added up.
Merged(a, b, double) ==
    [pixel_wtheta |-> Accumulated(a.pixel_wtheta, b.pixel_wtheta, double),
     pixel_weight |-> Accumulated(a.pixel_weight, b.pixel_weight, double),
     pair_weight |-> Accumulated(a.pair_weight, b.pair_weight, double),
     pair_count |-> Accumulated(a.pair_count, b.pair_count, "long"),
     pixel_wtheta_region |->
         SumVec(a.pixel_wtheta_region, b.pixel_wtheta_region, double),
     pixel_weight_region |->
         SumVec(a.pixel_weight_region, b.pixel_weight_region, double),
     pair_weight_region |->
         SumVec(a.pair_weight_region, b.pair_weight_region, double),
     pair_counts_region |->
         SumVec(a.pair_counts_region, b.pair_counts_region, "long")]

\* C13 as stated: the bin that took the deposits holds what a bin holds
\* that took them in any other order, and what the accumulators of two
\* bins add up to that took one part of the deposits each.
C13_OrderIndependent ==
    /\ \A f \in Orders : RoundedFold(Fresh, Reordered(f)) = acc
    /\ \A part \in Parts :
          Merged(RoundedFold(Fresh, PartFrom(part, 1)),
                 RoundedFold(Fresh, PartFrom(Others(part), 1)),
                 "double") = acc

\* No sum of the deposits, applied in this order, is rounded.
Unrounded(calls) ==
    \A n \in 0 .. Len(calls) :
        RoundedFold(Fresh, SubSeq(calls, 1, n))
            = ExactFold(Fresh, SubSeq(calls, 1, n))

Counts(bin) == <<bin.pair_count, bin.pair_counts_region>>

\* C13, amended: the pair counts, which are integers, do not depend on the
\* order of the deposits nor on their partition among two bins; the double
\* accumulators do not either as far as the sums are exact: they agree
\* whenever no sum is rounded, and differ by the rounding of the sums
\* otherwise.
C13_OrderIndependentUpToRounding ==
    LET exact == ExactFold(Fresh, deposits)
        unrounded == Unrounded(deposits)
    IN  /\ \A f \in Orders :
              LET calls == Reordered(f)
                  rounded == RoundedFold(Fresh, calls)
              IN  /\ ExactFold(Fresh, calls) = exact
                  /\ Counts(rounded) = Counts(acc)
                  /\ unrounded /\ Unrounded(calls) => rounded = acc
        /\ \A part \in Parts :
              LET one == PartFrom(part, 1)
                  other == PartFrom(Others(part), 1)
              IN  /\ Merged(ExactFold(Fresh, one), ExactFold(Fresh, other),
                            "exact") = exact
                  /\ Counts(Merged(RoundedFold(Fresh, one),
                                   RoundedFold(Fresh, other), "double"))
                         = Counts(acc)

\* Weights 4, 1 and 1 in this order: each 1 is lost to rounding and the
\* bin holds 4, where the exact sum, and the order 1, 1, 4, give 6.
C13_Witness ==
    /\ Len(deposits) = 3
    /\ \A i \in 1 .. 3 : deposits[i].kind = "pair_wtheta"
    /\ <<deposits[1].x, deposits[2].x, deposits[3].x>> = <<4, 1, 1>>
    /\ acc.pair_weight = 4
    /\ ExactFold(Fresh, deposits).pair_weight = 6

(***************************************************************************)
(* Properties of rescale_pair_counts and move_weight.                      *)
(***************************************************************************)
GlobalCounter(c) ==
    CASE c = "GAL_GAL" -> gal_gal_
      [] c = "GAL_RAND" -> gal_rand_
      [] c = "RAND_GAL" -> rand_gal_
      [] c = "RAND_RAND" -> rand_rand_

RegionCounter(c) ==
    CASE c = "GAL_GAL" -> gal_gal_region_
      [] c = "GAL_RAND" -> gal_rand_region_
      [] c = "RAND_GAL" -> rand_gal_region_
      [] c = "RAND_RAND" -> rand_rand_region_

\* What a rescaling and a move of the pair weight never touch.
CountAndPixelSums ==
    <<pair_count_, pair_counts_region_, pixel_wtheta_, pixel_weight_,
      pixel_wtheta_region_, pixel_weight_region_>>

\* C14: a call rescale_pair_counts(c, s) divides the global counter c and
\* each of the n_region per-region counters c by the same s, and leaves the
\* other three counters, pair_weight, pair_count and the pixel sums, global
\* and per region, as they were.
C14_RescaleDividesOneCounter ==
    [][\A c \in Counter, s \in Scales :
          RescalePairCounts(c, s) =>
             /\ GlobalCounter(c)' = DDiv(GlobalCounter(c), s)
             /\ Len(RegionCounter(c)') = Len(RegionCounter(c))
             /\ \A k \in 1 .. Len(RegionCounter(c)) :
                   RegionCounter(c)'[k] =
                      IF k <= n_region_ THEN DDiv(RegionCounter(c)[k], s)
                      ELSE RegionCounter(c)[k]
             /\ \A o \in Counter \ {c} :
                   /\ GlobalCounter(o)' = GlobalCounter(o)
                   /\ RegionCounter(o)' = RegionCounter(o)
             /\ UNCHANGED <<pair_weight_, pair_weight_region_,
                            CountAndPixelSums>>]_vars

\* A weight of 1 was deposited outside region 0 of two, moved to gal_gal
\* and divided by 2: the global counter and that of region 1 hold 1/2,
\* that of region 0 holds 0.
C14_Witness ==
    /\ n_region_ = 2
    /\ gal_gal_ = Frac(1, 2)
    /\ gal_gal_region_ = <<D(0), Frac(1, 2)>>
    /\ pair_weight_ = D(0)

\* What the call of the log adds to the pair weight: of the whole bin for
\* region = -1, of the region otherwise.
WeightOf(call, region) ==
    IF IsMove(call) THEN D(0)
    ELSE IF region = -1 THEN call.arg
    ELSE IF call.regions = <<>> THEN D(0)
    ELSE IF call.regions[1] # -1 /\ call.regions[2] # -1
            /\ call.regions[1] # region /\ call.regions[2] # region
         THEN call.arg
    ELSE D(0)

\* The weight deposited by the calls from..to of the log.
RECURSIVE WeightIn(_, _, _)
WeightIn(from, to, region) ==
    IF from > to THEN D(0)
    ELSE DAdd(WeightOf(phases[from], region), WeightIn(from + 1, to, region))

\* The first call of the phase that the move at position m closes.
PhaseStart(m) ==
    LET before == {i \in 1 .. m - 1 : IsMove(phases[i])}
    IN  IF before = {} THEN 1
        ELSE 1 + CHOOSE i \in before : \A j \in before : j <= i

\* The weight of the phases up to position m that were moved to counter c.
RECURSIVE MovedTo(_, _, _)
MovedTo(c, m, region) ==
    IF m = 0 THEN D(0)
    ELSE IF IsMove(phases[m]) /\ phases[m].arg = c
         THEN DAdd(WeightIn(PhaseStart(m), m - 1, region),
                   MovedTo(c, m - 1, region))
    ELSE MovedTo(c, m - 1, region)

\* Each counter holds the weight of the phases moved to it and pair_weight
\* that of the open phase, for the whole bin and for each region.
PhaseWeightsKept ==
    /\ \A c \in Counter :
          /\ GlobalCounter(c) = MovedTo(c, Len(phases), -1)
          /\ \A k \in 1 .. n_region_ :
                RegionCounter(c)[k] = MovedTo(c, Len(phases), k - 1)
    /\ pair_weight_ = WeightIn(OpenPhaseStart, Len(phases), -1)
    /\ \A k \in 1 .. n_region_ :
          pair_weight_region_[k] = WeightIn(OpenPhaseStart, Len(phases), k - 1)

\* move_weight(c) adds pair_weight to counter c and zeroes it, for the
\* whole bin and for each region, and leaves the other counters alone.
MoveAddsToOneCounter ==
    \A c \in Counter :
       PhaseMoveWeight(c) =>
          /\ GlobalCounter(c)' = DAdd(GlobalCounter(c), pair_weight_)
          /\ pair_weight_' = D(0)
          /\ \A k \in 1 .. n_region_ :
                /\ RegionCounter(c)'[k] =
                      DAdd(RegionCounter(c)[k], pair_weight_region_[k])
                /\ pair_weight_region_'[k] = D(0)
          /\ \A o \in Counter \ {c} :
                /\ GlobalCounter(o)' = GlobalCounter(o)
                /\ RegionCounter(o)' = RegionCounter(o)
          /\ UNCHANGED CountAndPixelSums

\* C17: move_weight(c) adds the pair weight to counter c, for the whole bin
\* and for each region, zeroes the pair weight and leaves the other three
\* counters unchanged; so in a run of deposits and moves each counter holds
\* exactly the weight that was deposited during the phases moved to it.
C17_MoveWeightPhases == []PhaseWeightsKept /\ [][MoveAddsToOneCounter]_vars

\* The run of the statement: a weight of 2 moved to gal_gal, a weight of 1
\* (given with regions 0, 0) moved to gal_rand and a weight of 1 moved to
\* rand_rand.
C17_Witness ==
    /\ Len(phases) = 6
    /\ <<phases[2].arg, phases[4].arg, phases[6].arg>>
          = <<"GAL_GAL", "GAL_RAND", "RAND_RAND">>
    /\ <<gal_gal_, gal_rand_, rand_gal_, rand_rand_>>
          = <<D(2), D(1), D(0), D(1)>>
    /\ gal_rand_region_ = <<D(0), D(1)>>
    /\ pair_weight_ = D(0)

(***************************************************************************)
(* Properties of wtheta_error.                                             *)
(***************************************************************************)
\* The error the statement gives for the accumulators gal_gal and
\* pixel_weight of the bin or of a region: that of the pairs for a bin of
\* level -1, that of the pixels otherwise.
ErrorChoiceSquared(gal_gal, pixel_weight) ==
    IF level_ = -1 THEN InverseRootSquared(gal_gal)
    ELSE InverseRootSquared(pixel_weight)

\* C18: wtheta_error(-1) returns what wtheta_error() returns, 1/sqrt(gal_gal)
\* for a bin of level -1 and 1/sqrt(pixel_weight) for a pixel bin, and
\* wtheta_error(k) makes the same choice on the accumulators of region k.
C18_ErrorOfWholeBin ==
    /\ WthetaErrorRegionSquared(-1) = WthetaErrorSquared
    /\ WthetaErrorSquared = ErrorChoiceSquared(gal_gal_, pixel_weight_)
    /\ \A k \in 0 .. n_region_ - 1 :
          WthetaErrorRegionSquared(k) =
             ErrorChoiceSquared(ReadRegion(gal_gal_region_, k),
                                ReadRegion(pixel_weight_region_, k))

(***************************************************************************)
(* Properties of the lookups of RegionMap.                                 *)
(***************************************************************************)
Stored(map, key, missing) == IF key \in DOMAIN map THEN map[key] ELSE missing

\* C15: FindRegion(point) and Region(pixel index) return the region stored
\* for the pixel, or -1 when it has none; RegionArea(r) returns the area
\* recorded for r, or 0 when none is; and no lookup adds or changes an entry
\* of the region map or of the area table.
C15_LookupsReadOnly ==
    [][/\ \A region_idx \in LookupPixnums :
             RegionCall(region_idx) =>
                answer' = <<Stored(region_map_, region_idx, -1)>>
       /\ \A ang \in LookupPoints :
             FindRegionCall(ang) =>
                answer' = <<Stored(region_map_, Pixnum(ang[1], ang[2]), -1)>>
       /\ \A region \in LookupRegions :
             RegionAreaCall(region) =>
                answer' = <<Stored(region_area_, region, 0)>>
       /\ asked' # asked \/ answer' # answer =>
             UNCHANGED <<region_map_, region_area_, map_n_region_,
                         region_resolution_>>]_vars

\* Region was asked about a pixel that has no region, in a map of which
\* another pixel has one, and answered -1.
C15_Witness ==
    /\ asked # <<>>
    /\ asked[1] = "Region"
    /\ asked[2] \notin DOMAIN region_map_
    /\ region_map_ # NoRegions
    /\ answer = <<-1>>

(***************************************************************************)
(* Properties of InitializeRegions(base_map, stomp_map).                   *)
(***************************************************************************)
\* C19: a call that met a coverage pixel without a region returned false
\* and left the region map uninitialised: no pixel has an entry, NRegion()
\* is 0 and Initialized() is false.
C19_FailureLeavesUninitialised ==
    returned = <<FALSE>> =>
       /\ region_map_ = NoRegions
       /\ NRegion = 0
       /\ ~Initialized

(***************************************************************************)
(* Properties of _Regionate.                                               *)
(***************************************************************************)
\* The pixels in the order the loops of _Regionate meet them: section by
\* section, and in the order of the coverage within a section.
RECURSIVE SweepOrder(_, _)
SweepOrder(coverage_pix, sectionVec) ==
    IF sectionVec = <<>> THEN <<>>
    ELSE LET InHead(pix) == InSection(pix, Head(sectionVec))
         IN  SelectSeq(coverage_pix, InHead)
                \o SweepOrder(coverage_pix, Tail(sectionVec))

\* The region count _Regionate was given, and the call was one that ran it.
RegionateCount == EffectiveCount % Uint8Modulus

Regionated == Returned /\ EffectiveCount # Len(stomp_map.pixels)

\* The sweep of _Regionate after the first j pixels of the order.
RECURSIVE SweepAfter(_, _)
SweepAfter(order, j) ==
    IF j = 0
    THEN [region_area |-> 0, running_area |-> 0,
          region_iter |-> StartingRegionIndex, region_map |-> NoRegions,
          region_areas |-> NoRegions]
    ELSE RegionatePixel(SweepAfter(order, j - 1), order[j],
                        (FinestResolution \div region_resolution_)
                            * (FinestResolution \div region_resolution_),
                        SumArea(stomp_map.pixels, region_resolution_),
                        Len(stomp_map.pixels), RegionateCount)

\* accumulated + 0.75 * (total / size) >= (k + 1) * (total / n), multiplied
\* through by 4 * size * n.
ReachedBreak(accumulated, total, size, n, k) ==
    4 * size * n * accumulated + 3 * n * total >= 4 * size * total * (k + 1)

\* The statement for the j-th pixel of the order.
RegionStep(order, j) ==
    LET before == SweepAfter(order, j - 1)
        after == SweepAfter(order, j)
        k == before.region_iter
    IN  /\ after.region_iter \in {k, k + 1}
        /\ after.region_iter = k + 1 <=>
              /\ ReachedBreak(before.region_area,
                              SumArea(stomp_map.pixels, region_resolution_),
                              Len(stomp_map.pixels), RegionateCount, k)
              /\ k # RegionateCount - 1
        /\ after.region_map[order[j].pixnum] = after.region_iter
        /\ k = RegionateCount - 1 => after.region_iter = k

\* C16: while _Regionate runs, the region index it assigns never decreases
\* and rises by exactly one at a time; a pixel opens region k + 1 exactly
\* when the area assigned so far plus 0.75 of the mean pixel area has
\* reached (k + 1) * (total area / N) and k is not the last region N - 1,
\* which takes every pixel that remains.  The region map of the call is the
\* one this sweep leaves, for a region width the call can have used.
C16_RegionIndexRises ==
    Regionated =>
       \E region_width \in RegionWidths(stomp_map.area, RegionateCount,
                                        region_resolution_) :
          LET order == SweepOrder(stomp_map.pixels,
                          FindSections(FindUniqueStripes(stomp_map.pixels),
                                       region_width))
          IN  /\ SweepAfter(order, Len(order)).region_map = region_map_
              /\ \A j \in 1 .. Len(order) : RegionStep(order, j)

\* Four pixels asked into three regions: all three regions are in use.
C16_Witness ==
    /\ Regionated
    /\ n_request = 3
    /\ Len(stomp_map.pixels) = 4
    /\ RegionsInUse = {0, 1, 2}

(***************************************************************************)
(* Properties of _FindSections.                                            *)
(***************************************************************************)
SectionsFound == asked # <<>> /\ asked[1] = "_FindSections"

StripesOf(sec) == sec.min_stripe .. sec.max_stripe

\* C20: the sections _FindSections makes are runs of consecutive stripes of
\* the coverage, none longer than the region width and none spanning a gap
\* between stripes; they are pairwise disjoint, and every stripe of the
\* coverage lies in exactly one of them.
C20_SectionsPartitionStripes ==
    SectionsFound =>
       LET unique_stripes == {asked[2][i] : i \in DOMAIN asked[2]}
           region_width == asked[3]
           sectionVec == answer[1]
       IN  /\ \A i \in DOMAIN sectionVec :
                 /\ sectionVec[i].min_stripe <= sectionVec[i].max_stripe
                 /\ Cardinality(StripesOf(sectionVec[i])) <= region_width
                 /\ StripesOf(sectionVec[i]) \subseteq unique_stripes
           /\ \A i, j \in DOMAIN sectionVec :
                 i # j =>
                    StripesOf(sectionVec[i]) \cap StripesOf(sectionVec[j]) = {}
           /\ \A stripe \in unique_stripes :
                 Cardinality({i \in DOMAIN sectionVec :
                                 stripe \in StripesOf(sectionVec[i])}) = 1

\* The stripes 0, 1, 2 and 4 with a width of 2: the run 0..2 is cut after
\* two stripes and the gap at 3 ends a section.
C20_Witness ==
    /\ asked = <<"_FindSections", <<0, 1, 2, 4>>, 2>>
    /\ answer = <<<<[min_stripe |-> 0, max_stripe |-> 1],
                    [min_stripe |-> 2, max_stripe |-> 2],
                    [min_stripe |-> 4, max_stripe |-> 4]>>>>

(***************************************************************************)
(* C21.  The lengths of the per-region vectors.                           *)
(***************************************************************************)

\* regions_initialized(): the process exits with status 1 at the first of
\* the eight tested vectors whose size differs from n_region_; otherwise the
\* call returns true.
RegionsInitialized ==
    IF \/ Len(pair_weight_region_) # n_region_
       \/ Len(pair_counts_region_) # n_region_
       \/ Len(gal_gal_region_) # n_region_
       \/ Len(gal_rand_region_) # n_region_
       \/ Len(rand_gal_region_) # n_region_
       \/ Len(rand_rand_region_) # n_region_
       \/ Len(pixel_weight_region_) # n_region_
       \/ Len(pixel_wtheta_region_) # n_region_
    THEN "exit(1)"
    ELSE "true"

\* Every one of the ten per-region vectors has n_region_ elements.
AllRegionVectorsSized(n) ==
    /\ Len(pair_weight_region_) = n
    /\ Len(pair_counts_region_) = n
    /\ Len(gal_gal_region_) = n
    /\ Len(gal_rand_region_) = n
    /\ Len(rand_gal_region_) = n
    /\ Len(rand_rand_region_) = n
    /\ Len(pixel_wtheta_region_) = n
    /\ Len(pixel_weight_region_) = n
    /\ Len(wtheta_region_) = n
    /\ Len(wtheta_error_region_) = n

\* The bin after an init_regions call with a negative count.
NegativeInitLeavesNoRegions ==
    \A n \in RegionCounts :
        (n < 0 /\ InitRegions(n)) =>
            /\ n_region_' = 0
            /\ pair_weight_region_' = <<>> /\ pair_counts_region_' = <<>>
            /\ gal_gal_region_' = <<>> /\ gal_rand_region_' = <<>>
            /\ rand_gal_region_' = <<>> /\ rand_rand_region_' = <<>>
            /\ pixel_wtheta_region_' = <<>> /\ pixel_weight_region_' = <<>>
            /\ wtheta_region_' = <<>> /\ wtheta_error_region_' = <<>>

\* C21: in every state reached by construction, init_regions, clear_regions,
\* deposits, move_weight, rescale_pair_counts and resets, each per-region
\* vector of the bin has n_region_ elements, so regions_initialized() returns
\* true instead of exiting; and an init_regions call with a negative count
\* leaves n_region_ = 0 and every per-region vector empty.
C21_VectorsHaveRegionLength ==
    /\ [](AllRegionVectorsSized(n_region_) /\ RegionsInitialized = "true")
    /\ [][NegativeInitLeavesNoRegions]_vars

\* A bin with two regions that has taken deposits into its regions.
C21_Witness ==
    /\ n_region_ = 2
    /\ n_ops = MaxOps
    /\ AllRegionVectorsSized(2)
    /\ \E k \in 1 .. 2 : pair_weight_region_[k] # D(0)

(***************************************************************************)
(* C22.  ClearRegions() and the region areas.                              *)
(***************************************************************************)
\* The region map holds no result: it was constructed or cleared and no
\* InitializeRegions has returned since.
Cleared == ~Returned /\ exited = 0 /\ region_map_ = NoRegions

\* The call that returned went through _FindSections and _Regionate.
ByRegionation == Returned /\ EffectiveCount < Len(stomp_map.pixels)

\* C22: after ClearRegions() the region map is as freshly constructed, with
\* RegionArea(r) = 0 for every r; and after a following InitializeRegions
\* that regionates the map, NRegion() is the number of regions of the new
\* regionation and RegionArea(r) = 0 for every r from the new region count
\* on, whatever was regionated before.
C22_ClearRegionsRestoresFresh ==
    /\ Cleared =>
          /\ NRegion = 0
          /\ \A r \in 0 .. MaxN : RegionArea(r) = 0
    /\ ByRegionation =>
          /\ NRegion = Cardinality(RegionsInUse)
          /\ \A r \in 0 .. MaxN : r >= EffectiveCount => RegionArea(r) = 0

(***************************************************************************)
(* Stomp::RegionMap on coverages of more than 255 pixels, where a requested *)
(* region count need not fit the uint8_t parameter of _FindSections and     *)
(* _Regionate.                                                              *)
(***************************************************************************)
WideSizes == {258}

\* The stripes a wide coverage runs over, each taking an equal share of the
\* pixels.
WideLayouts == {<<0>>, <<0, 1>>, <<0, 2>>, <<0, 1, 2>>}

\* Every pixel whole, or the last one half covered.
WideLastWeights == {1, 2}

WideCounts == {3, 256, 257, 300}

WideMapOf(size, layout, last_weight) ==
    LET pixels == [i \in 1 .. size |->
                      [pixnum |-> i - 1,
                       stripe |-> layout[((i - 1) * Len(layout)) \div size + 1],
                       weight |-> IF i = size THEN last_weight ELSE WeightUnit]]
    IN  [area |-> SumArea(pixels, FinestResolution \div 2),
         max_resolution |-> FinestResolution \div 2,
         pixels |-> pixels]

WideMaps ==
    {WideMapOf(size, layout, last_weight) :
        size \in WideSizes, layout \in WideLayouts,
        last_weight \in WideLastWeights}

\* RegionMap() and a wide map to regionate.
WideInit ==
    /\ BinConstructed(-1)
    /\ ThetaIdle
    /\ SumIdle
    /\ stomp_map \in WideMaps
    /\ region_map_ = NoRegions
    /\ region_area_ = NoRegions
    /\ map_n_region_ = 0
    /\ region_resolution_ = 0
    /\ n_request = 0
    /\ resolution_request = 0
    /\ returned = NoReturn
    /\ exited = 0
    /\ n_calls = 0

\* The calls name the resolution of the map.
WideNext ==
    \/ \E n \in WideCounts : InitializeRegions(n, FinestResolution \div 2)
    \/ ClearRegionMap

WideSpec == WideInit /\ [][WideNext]_vars

(***************************************************************************)
(* C23.  The final check of InitializeRegions.                             *)
(***************************************************************************)
\* C23: for a map with at least one coverage pixel and a requested count of
\* one or more, InitializeRegions never leaves through the "illegal region
\* index" exit(2): every region index the regionation stored is below the
\* count the final check uses, the requested count lowered to the number of
\* coverage pixels.
C23_NoIllegalRegionIndex ==
    /\ exited # 2
    /\ Returned => \A p \in DOMAIN region_map_ : region_map_[p] < EffectiveCount

\* A request for 256 regions on a coverage of more pixels than that has
\* returned.
C23_Witness ==
    /\ Returned
    /\ n_request = Uint8Modulus
    /\ Len(stomp_map.pixels) > Uint8Modulus
    /\ DOMAIN region_map_ = CoveragePixnums

(***************************************************************************)
(* C24.  The region count handed to _FindSections and _Regionate.          *)
(***************************************************************************)
\* What _FindSections and _Regionate leave in the region map when they work
\* with the count n_region: a target area of total area / n_region and a
\* last region n_region - 1.
RegionMapsFor(n_region) ==
    {Regionate(stomp_map.pixels,
               FindSections(FindUniqueStripes(stomp_map.pixels), region_width),
               n_region, region_resolution_, NoRegions, NoRegions).region_map :
        region_width \in RegionWidths(stomp_map.area, n_region,
                                      region_resolution_)}

\* C24: for a requested count N from 1 up to the number of coverage pixels,
\* counts of 256 and more included, the regionation InitializeRegions leaves
\* is the one _FindSections and _Regionate produce for that same N, with the
\* target area total area / N and the last region N - 1.
C24_SameCountThroughout ==
    Regionated => region_map_ \in RegionMapsFor(EffectiveCount)

(***************************************************************************)
(* C25.  The bin under non-negative deposits and positive rescalings.      *)
(***************************************************************************)
NonNegativeWthetas == {D(0), D(2)}

\* The calls of Next that change an accumulator or the regions, with
\* non-negative weights, counts and pixel products and positive scales.
NonNegativeNext ==
    \/ \E n \in RegionCounts : InitRegions(n)
    \/ ClearRegions
    \/ \E x \in NonNegativeWthetas, w \in DWeights : AddToPixelWtheta(x, w)
    \/ \E x \in NonNegativeWthetas, w \in DWeights, a \in RegionArgs, b \in RegionArgs :
          AddToPixelWthetaRegion(x, w, a, b)
    \/ \E w \in Weights : AddToWeight(w)
    \/ \E w \in Weights, a \in RegionArgs, b \in RegionArgs :
          AddToWeightRegion(w, a, b)
    \/ \E n \in Steps : AddToCounter(n)
    \/ \E n \in Steps, a \in RegionArgs, b \in RegionArgs :
          AddToCounterRegion(n, a, b)
    \/ \E w \in Weights, n \in Steps : AddToPairWtheta(w, n)
    \/ \E w \in Weights, n \in Steps, a \in RegionArgs, b \in RegionArgs :
          AddToPairWthetaRegion(w, n, a, b)
    \/ \E c \in Counter : MoveWeight(c)
    \/ \E c \in Counter, x \in Scales : RescalePairCounts(c, x)
    \/ Reset
    \/ ResetPixelWtheta
    \/ ResetWeight
    \/ ResetCounter
    \/ \E c \in Counter : ResetPairCounts(c)

NonNegativeSpec == Init /\ [][NonNegativeNext]_vars

\* a <= b for two finite doubles.
AtMost(a, b) == a.n * b.d <= b.n * a.d

\* C25: with non-negative deposits and positive rescale factors, in every
\* reachable state of a bin each per-region accumulator is at most its global
\* accumulator: the pair weight, the pair count, each of the four pair
\* counters, the pixel product and the pixel weight, whatever the
\* interleaving of deposits, move_weight, rescale_pair_counts, resets and
\* init_regions.
C25_RegionAtMostGlobal ==
    \A k \in 1 .. n_region_ :
        /\ AtMost(pair_weight_region_[k], pair_weight_)
        /\ pair_counts_region_[k] <= pair_count_
        /\ AtMost(gal_gal_region_[k], gal_gal_)
        /\ AtMost(gal_rand_region_[k], gal_rand_)
        /\ AtMost(rand_gal_region_[k], rand_gal_)
        /\ AtMost(rand_rand_region_[k], rand_rand_)
        /\ AtMost(pixel_wtheta_region_[k], pixel_wtheta_)
        /\ AtMost(pixel_weight_region_[k], pixel_weight_)

\* A bin of two regions that took a region-less and a region deposit of
\* weight and moved both to a pair counter: region 0 was left out of the
\* region deposit, region 1 was not.
C25_Witness ==
    /\ n_region_ = 2
    /\ \E c \in Counter :
          /\ GlobalCounter(c) = D(2)
          /\ RegionCounter(c) = <<D(0), D(1)>>

(***************************************************************************)
(* C26.  The per-region getters outside the regions.                       *)
(***************************************************************************)
\* region == -1 ? global : (region < n_region_ ? vec[region] : sentinel)
RegionGetter(global, vec, region, sentinel) ==
    IF region = -1 THEN global
    ELSE IF region < n_region_ THEN ReadRegion(vec, region)
    ELSE sentinel

\* pixel_wtheta(region)
PixelWthetaRegion(region) ==
    RegionGetter(pixel_wtheta_, pixel_wtheta_region_, region, D(-1))

\* pixel_weight(region)
PixelWeightRegion(region) ==
    RegionGetter(pixel_weight_, pixel_weight_region_, region, D(-1))

\* pair_weight(region)
PairWeightRegion(region) ==
    RegionGetter(pair_weight_, pair_weight_region_, region, D(-1))

\* pair_counts(region)
PairCountsRegion(region) ==
    RegionGetter(pair_count_, pair_counts_region_, region, -1)

\* pair_weight(c, region)
PairWeightCounterRegion(c, region) ==
    RegionGetter(GlobalCounter(c), RegionCounter(c), region, D(-1))

\* The getters subscript their vectors with region, and region is no
\* position of a vector.
ReadsOutOfRange(region) ==
    /\ region # -1
    /\ region < n_region_
    /\ ~(region >= 0 /\ region < Len(pair_weight_region_))

GetterRegions == -3 .. 3

\* The region is neither -1 nor one of the bin's regions.
OutsideRegions(region) ==
    region # -1 /\ (region < 0 \/ region >= n_region_)

\* Every getter gives the global value.
GettersGiveGlobal(region) ==
    /\ WthetaRegion(region) = Wtheta
    /\ WthetaErrorRegionSquared(region) = WthetaErrorSquared
    /\ PixelWthetaRegion(region) = pixel_wtheta_
    /\ PixelWeightRegion(region) = pixel_weight_
    /\ PairWeightRegion(region) = pair_weight_
    /\ PairCountsRegion(region) = pair_count_
    /\ \A c \in Counter : PairWeightCounterRegion(c, region) = GlobalCounter(c)

\* Every getter gives -1 and reads no vector outside its elements.
GettersGiveSentinel(region) ==
    /\ ~ReadsOutOfRange(region)
    /\ WthetaRegion(region) = D(-1)
    /\ WthetaErrorRegionSquared(region) = D(-1)
    /\ PixelWthetaRegion(region) = D(-1)
    /\ PixelWeightRegion(region) = D(-1)
    /\ PairWeightRegion(region) = D(-1)
    /\ PairCountsRegion(region) = -1
    /\ \A c \in Counter : PairWeightCounterRegion(c, region) = D(-1)

\* C26: every per-region getter returns the global value for region -1 and
\* the sentinel -1 for every other region index outside [0, n_region),
\* indices below -1 included, and reads no per-region vector out of range.
C26_SentinelOutsideRegions ==
    \A region \in GetterRegions :
        /\ region = -1 => GettersGiveGlobal(region)
        /\ OutsideRegions(region) => GettersGiveSentinel(region)

====
